---------------------------- MODULE Spec2Model ----------------------------
(***************************************************************************)
(* Model of the in-session engine of the meeting bot:                      *)
(*   - the page-side presence watchdog and page-event handlers             *)
(*     (startGoogleRecording, the function evaluated in the page),         *)
(*   - the control-side status poll and teardown (checkStatus),            *)
(*   - the graceful shutdown sequencer (performGracefulLeave, runBot,      *)
(*     gracefulShutdown),                                                  *)
(*   - the speaker activity detector (initializeSpeakerDetection).         *)
(* Each component has its own specification over the shared variables.     *)
(***************************************************************************)
EXTENDS Integers, Sequences, FiniteSets, TLC

(* ------------------------------ bounds --------------------------------- *)
\* largest participant count the detector reports to the watchdog
MaxCount == 2
\* largest configured startupAloneTimeoutSeconds explored
MaxStartupTimeout == 4
\* largest configured everyoneLeftTimeoutSeconds explored
MaxLeftTimeout == 2
\* status-poll callbacks that may be in flight at once
MaxPolls == 2
\* shutdown requests from signals, the page bridge and the platform handler
MaxCalls == 3
\* participant representations that can be on the page
MaxElems == 2
\* speaker events logged before the page stops changing
MaxEvents == 3
\* milliseconds between two readings of the clock
TickMs == 12
\* latest clock reading explored
MaxClock == 12
\* nodes under <main>
MaxNodes == 2
\* calls of getGoogleParticipantId on one representation
MaxResolutions == 3
\* the largest timeout of the runs that reach a progress line
MaxLongTimeout == 12
\* a progress line every LogEvery alone-seconds
LogEvery == 10

VARIABLES
  \* ---- page side: watchdog (startGoogleRecording, page.evaluate body)
  startupAloneTimeoutSeconds, everyoneLeftTimeoutSeconds,
  wd,                     \* aloneTime, lastParticipantCount, speakersIdentified, ...
  checkInterval,          \* "none" | "active" | "cleared"
  vexaRecordingRejected,  \* "none" or the message of the Error stored in the page
  vexaRecordingResolved,  \* BOOLEAN
  pageState,              \* the page's document: "loaded" | "unloading" | "gone"
  \* ---- page side: capture pipelines
  audio, video,           \* [rec, chunks, blob, flush]
  pollingInterval,        \* detector poll timer: "none" | "active"
  \* ---- history of the watchdog's inputs (not program state)
  startupTicks,           \* ticks read before the first count > 1
  everMulti,              \* some tick has read a count > 1
  aloneRun,               \* consecutive ticks with count <= 1 up to the last tick
  progress,               \* what the latest tick passed to logBot as progress line

  \* ---- control side: coordinator
  cpc,                    \* position of startGoogleRecording
  startState,             \* per pipeline: "idle" | "initialized" | "init_failed" |
                          \*   "pending" | "ok" | "failed"
  checkStatus,            \* "none" | "active" | "cleared"
  polls,                  \* in-flight checkStatus callbacks
  promise,                \* [state, error]
  files,                  \* the artifacts written: chunks per media file, events flag
  \* ---- a second watchdog fed a 0/1-swapped count sequence (comparison only)
  wdB, checkIntervalB, rejectedB,
  \* ---- control side: shutdown sequencer (module state of the bot's index file)
  platform,               \* botConfig.platform = currentPlatform
  page,                   \* module-level page handle: "null" | "open" | "closed"
  browserInstance,        \* "null" | "connected" | "disconnected"
  isShuttingDown,         \* the guard
  rbpc,                   \* position of runBot
  calls,                  \* invocations of performGracefulLeave, in call order
  processExit,            \* [exited, code, by]
  \* ---- page side: speaker detector
  dom,                    \* participant representations on the page
  speakingStates,         \* Map id -> 'speaking' | 'silent' ("unset" when absent)
  lastSpeakingById,       \* the poll's own Map id -> boolean ("unset" when absent)
  speakerEvents,          \* the event log
  sessionStartTime,       \* Date.now() at startDetection (NullTime before)
  now,                    \* what Date.now() returns in the page
  \* ---- page side: the meeting's <main> element and the participant helper
  mainElement,            \* the nodes under <main>, in document order
  botName,                \* botConfigData.botName (<<>> when undefined or empty)
  participants,           \* what the last getActiveParticipants() call returned
  \* ---- page side: one participant representation and its id resolutions
  tile,                   \* [attr, child, generated]: data-participant-id, the
                          \*   [jsinstance] child's attribute, dataset.vexaGeneratedId
  resolvedIds,            \* the ids getGoogleParticipantId returned, in call order
  \* ---- control side: output directory setup
  recordingsDir,          \* the directory the recording is written under
  isWritableCalls,        \* per candidate: what its isWritable() call returned
  verified                \* outcome of the create-and-write verification

pageVars == <<startupAloneTimeoutSeconds, everyoneLeftTimeoutSeconds, wd, checkInterval,
              vexaRecordingRejected, vexaRecordingResolved, pageState,
              audio, video, pollingInterval>>
histVars == <<startupTicks, everMulti, aloneRun, progress>>
coordVars == <<cpc, startState, checkStatus, polls, promise, files>>
pairVars == <<wdB, checkIntervalB, rejectedB>>
seqVars == <<platform, page, browserInstance, isShuttingDown, rbpc, calls, processExit>>
detVars == <<dom, speakingStates, lastSpeakingById, speakerEvents, sessionStartTime, now>>
mainVars == <<mainElement, botName, participants>>
tileVars == <<tile, resolvedIds>>
dirVars == <<recordingsDir, isWritableCalls, verified>>
auxVars == <<mainVars, tileVars, dirVars>>
restVars == <<seqVars, detVars>>

LEFT_ALONE == "GOOGLE_MEET_BOT_LEFT_ALONE_TIMEOUT"
STARTUP_ALONE == "GOOGLE_MEET_BOT_STARTUP_ALONE_TIMEOUT"

Counts == 0..MaxCount

\* the page's script context exists: page.evaluate and page timers can run
pageAlive == pageState # "gone"

(* ------------------------- watchdog tick -------------------------------- *)
\* the state the page function declares before installing the interval
WatchdogInit ==
  [aloneTime |-> 0, lastParticipantCount |-> 0, speakersIdentified |-> FALSE,
   hasEverHadMultipleParticipants |-> FALSE, reason |-> "none"]

\* (variant) only an empty meeting counts as alone
IsAloneOnlyEmpty(count) == count < 1

\* which participant counts make the bot "alone"
IsAlone(count) == count <= 1

\* (variant) the flag follows the current count instead of latching
CountChangedFollowing(w, count) ==
  IF count # w.lastParticipantCount
    THEN [w EXCEPT !.lastParticipantCount = count,
                   !.hasEverHadMultipleParticipants = (count > 1),
                   !.speakersIdentified = (count > 1)]
    ELSE w

\* the count-changed block: records the count, flags speakers on a count > 1
CountChanged(w, count) ==
  IF count # w.lastParticipantCount
    THEN [w EXCEPT !.lastParticipantCount = count,
                   !.hasEverHadMultipleParticipants = IF count > 1 THEN TRUE ELSE @,
                   !.speakersIdentified = IF count > 1 THEN TRUE ELSE @]
    ELSE w

\* (variant) the startup threshold in both regimes
CurrentTimeoutStartupOnly(w, startupT, leftT) == startupT

\* the threshold of the active regime
CurrentTimeout(w, startupT, leftT) ==
  IF w.speakersIdentified THEN leftT ELSE startupT

\* (variant) the reason decided by the last recorded count
TimeoutReasonByLastCount(w) ==
  IF w.lastParticipantCount > 1 THEN LEFT_ALONE ELSE STARTUP_ALONE

\* the reason raised when the threshold is reached
TimeoutReason(w) ==
  IF w.speakersIdentified THEN LEFT_ALONE ELSE STARTUP_ALONE

\* (variant) the threshold must be exceeded
ThresholdExceeded(aloneTime, currentTimeout) == aloneTime > currentTimeout

\* the comparison that ends the wait
ThresholdReached(aloneTime, currentTimeout) == aloneTime >= currentTimeout

\* no progress line
NoProgress == [logged |-> FALSE]

\* the progress line of the branch taken when the threshold is not reached
ProgressLog(w, currentTimeout) ==
  IF w.aloneTime > 0 /\ w.aloneTime % LogEvery = 0
    THEN IF w.speakersIdentified
           THEN [logged |-> TRUE, alone |-> w.aloneTime, mode |-> "post-speaker",
                 seconds |-> currentTimeout - w.aloneTime]
           ELSE [logged |-> TRUE, alone |-> w.aloneTime, mode |-> "startup",
                 minutes |-> (currentTimeout - w.aloneTime) \div 60,
                 seconds |-> (currentTimeout - w.aloneTime) % 60]
    ELSE NoProgress

\* (variant) the progress branch restarts the count
AfterProgressLogRestarting(w, currentTimeout) ==
  IF ProgressLog(w, currentTimeout).logged THEN [w EXCEPT !.aloneTime = 0] ELSE w

\* the watchdog's variables after the progress branch: it only calls logBot
AfterProgressLog(w, currentTimeout) == w

\* (variant) the counter survives a tick with company
KeepAloneTime(aloneTime) == aloneTime

\* aloneTime = 0 in the branch of a count above one
ResetAloneTime(aloneTime) == 0

\* one run of the setInterval callback on the watchdog's own variables;
\* reason is "none" unless this tick raised a terminal reason
WatchdogStep(w, count, startupT, leftT) ==
  LET w1 == CountChanged(w, count) IN
  IF IsAlone(count)
    THEN LET w2 == [w1 EXCEPT !.aloneTime = @ + 1] IN
         IF ThresholdReached(w2.aloneTime, CurrentTimeout(w2, startupT, leftT))
           THEN [w2 EXCEPT !.reason = TimeoutReason(w2)]
           ELSE AfterProgressLog(w2, CurrentTimeout(w2, startupT, leftT))
    ELSE [w1 EXCEPT !.aloneTime = ResetAloneTime(@),
                    !.speakersIdentified =
                       IF w1.hasEverHadMultipleParticipants /\ ~w1.speakersIdentified
                         THEN TRUE ELSE @]


(* ----------------------- capture pipelines (page side) ------------------ *)
\* a recorder before startRecording has run: no MediaRecorder, no chunks, no blob
RecorderInit == [rec |-> "none", chunks |-> {}, blob |-> {}, flush |-> FALSE]

\* startRecording succeeded: chunks cleared, MediaRecorder recording
RecorderStarted(r) == [r EXCEPT !.rec = "recording", !.chunks = {}]

\* (variant) a stop that finds the recorder already inactive drops the stored blob
StopRecordingOnceOnly(r) ==
  IF r.rec = "recording"
    THEN LET r1 == [r EXCEPT !.rec = "inactive", !.flush = TRUE]
         IN IF r1.chunks # {} THEN [r1 EXCEPT !.blob = r1.chunks] ELSE r1
    ELSE [r EXCEPT !.blob = {}]

\* stopRecording of the audio pipeline: stop an active MediaRecorder (its last
\* data is delivered by a later dataavailable event), then store a blob of the
\* chunks collected so far, if any
AudioStopRecording(r) ==
  LET r1 == IF r.rec = "recording" THEN [r EXCEPT !.rec = "inactive", !.flush = TRUE] ELSE r
  IN IF r1.chunks # {} THEN [r1 EXCEPT !.blob = r1.chunks] ELSE r1

\* stopRecording of the video pipeline: the same steps on the video recorder
VideoStopRecording(r) ==
  LET r1 == IF r.rec = "recording" THEN [r EXCEPT !.rec = "inactive", !.flush = TRUE] ELSE r
  IN IF r1.chunks # {} THEN [r1 EXCEPT !.blob = r1.chunks] ELSE r1

\* stopDetection: clears the detector's poll timer
StopDetection(pi) == "none"

\* ondataavailable while recording: a timeslice chunk is pushed
DataAvailable(r) == [r EXCEPT !.chunks = @ \cup {"timeslice"}]

\* ondataavailable after stop(): the recorder's last data is pushed
FinalData(r) == [r EXCEPT !.chunks = @ \cup {"final"}, !.flush = FALSE]

AudioData ==
  /\ pageAlive
  /\ audio.rec = "recording"
  /\ audio' = DataAvailable(audio)
  /\ UNCHANGED <<startupAloneTimeoutSeconds, everyoneLeftTimeoutSeconds, wd, checkInterval,
                 vexaRecordingRejected, vexaRecordingResolved, pageState, video,
                 pollingInterval>>
  /\ UNCHANGED <<histVars, auxVars, coordVars>>
  /\ UNCHANGED <<pairVars, restVars>>

VideoData ==
  /\ pageAlive
  /\ video.rec = "recording"
  /\ video' = DataAvailable(video)
  /\ UNCHANGED <<startupAloneTimeoutSeconds, everyoneLeftTimeoutSeconds, wd, checkInterval,
                 vexaRecordingRejected, vexaRecordingResolved, pageState, audio,
                 pollingInterval>>
  /\ UNCHANGED <<histVars, auxVars, coordVars>>
  /\ UNCHANGED <<pairVars, restVars>>

\* the dataavailable event a stopped audio recorder still delivers
AudioFinalData ==
  /\ pageAlive
  /\ audio.flush
  /\ audio' = FinalData(audio)
  /\ UNCHANGED <<startupAloneTimeoutSeconds, everyoneLeftTimeoutSeconds, wd, checkInterval,
                 vexaRecordingRejected, vexaRecordingResolved, pageState, video,
                 pollingInterval>>
  /\ UNCHANGED <<histVars, auxVars, coordVars>>
  /\ UNCHANGED <<pairVars, restVars>>

\* the dataavailable event a stopped video recorder still delivers
VideoFinalData ==
  /\ pageAlive
  /\ video.flush
  /\ video' = FinalData(video)
  /\ UNCHANGED <<startupAloneTimeoutSeconds, everyoneLeftTimeoutSeconds, wd, checkInterval,
                 vexaRecordingRejected, vexaRecordingResolved, pageState, audio,
                 pollingInterval>>
  /\ UNCHANGED <<histVars, auxVars, coordVars>>
  /\ UNCHANGED <<pairVars, restVars>>

(* ----------------------- page-side monitor actions ---------------------- *)
\* the three stop calls every page-side terminal handler makes
StopAllInPage ==
  /\ audio' = AudioStopRecording(audio)
  /\ video' = VideoStopRecording(video)
  /\ pollingInterval' = StopDetection(pollingInterval)

\* (variant) the interval keeps running
KeepInterval(timer) == timer

\* clearInterval(checkInterval) in the firing branch
ClearInterval(timer) == "cleared"

\* one firing of the watchdog's 1 s interval, reading `count` from the detector
Tick(count) ==
  /\ pageAlive
  /\ checkInterval = "active"
  /\ LET w == WatchdogStep(wd, count, startupAloneTimeoutSeconds, everyoneLeftTimeoutSeconds)
     IN /\ wd' = w
        /\ IF w.reason # "none"
             THEN /\ checkInterval' = ClearInterval(checkInterval)
                  /\ StopAllInPage
                  /\ vexaRecordingRejected' = w.reason
             ELSE UNCHANGED <<checkInterval, audio, video, pollingInterval,
                              vexaRecordingRejected>>
  /\ startupTicks' = IF everMulti \/ count > 1 THEN startupTicks ELSE startupTicks + 1
  /\ everMulti' = (everMulti \/ count > 1)
  /\ aloneRun' = IF count > 1 THEN 0 ELSE aloneRun + 1
  /\ progress' =
       LET w1 == CountChanged(wd, count)
           w2 == [w1 EXCEPT !.aloneTime = @ + 1]
           currentTimeout == CurrentTimeout(w2, startupAloneTimeoutSeconds,
                                            everyoneLeftTimeoutSeconds)
       IN IF IsAlone(count) /\ ~ThresholdReached(w2.aloneTime, currentTimeout)
            THEN ProgressLog(w2, currentTimeout)
            ELSE NoProgress
  /\ UNCHANGED <<startupAloneTimeoutSeconds, everyoneLeftTimeoutSeconds,
                 vexaRecordingResolved, pageState>>
  /\ UNCHANGED <<coordVars, restVars>>

WatchdogTick == \E count \in Counts : Tick(count) /\ UNCHANGED <<pairVars, auxVars>>

\* the beforeunload listener
BeforeUnloadHandler ==
  /\ pageAlive
  /\ checkInterval # "none"
  /\ checkInterval' = "cleared"
  /\ StopAllInPage
  /\ vexaRecordingResolved' = TRUE
  /\ pageState' = "unloading"
  /\ UNCHANGED <<startupAloneTimeoutSeconds, everyoneLeftTimeoutSeconds, wd,
                 vexaRecordingRejected>>
  /\ UNCHANGED <<histVars, auxVars, coordVars>>
  /\ UNCHANGED restVars

BeforeUnload == BeforeUnloadHandler /\ UNCHANGED pairVars

\* the visibilitychange listener, with document.visibilityState = "hidden"
VisibilityHiddenHandler ==
  /\ pageAlive
  /\ checkInterval # "none"
  /\ checkInterval' = "cleared"
  /\ StopAllInPage
  /\ vexaRecordingResolved' = TRUE
  /\ UNCHANGED <<startupAloneTimeoutSeconds, everyoneLeftTimeoutSeconds, wd,
                 vexaRecordingRejected, pageState>>
  /\ UNCHANGED <<histVars, auxVars, coordVars>>
  /\ UNCHANGED restVars

VisibilityHidden == VisibilityHiddenHandler /\ UNCHANGED pairVars

\* the unload that beforeunload announced completes: the document and its
\* script context, window flags included, are gone
PageUnloaded ==
  /\ pageState = "unloading"
  /\ pageState' = "gone"
  /\ UNCHANGED <<startupAloneTimeoutSeconds, everyoneLeftTimeoutSeconds, wd, checkInterval,
                 vexaRecordingRejected, vexaRecordingResolved, audio, video,
                 pollingInterval>>
  /\ UNCHANGED <<histVars, auxVars, coordVars>>
  /\ UNCHANGED <<pairVars, restVars>>

\* the page's script context is lost without notice (crash, page closed)
PageGone ==
  /\ pageAlive
  /\ pageState' = "gone"
  /\ UNCHANGED <<startupAloneTimeoutSeconds, everyoneLeftTimeoutSeconds, wd, checkInterval,
                 vexaRecordingRejected, vexaRecordingResolved, audio, video,
                 pollingInterval>>
  /\ UNCHANGED <<histVars, auxVars, coordVars>>
  /\ UNCHANGED <<pairVars, restVars>>


(* ----------------------- speaker detector (page side) ------------------- *)
Elems == 1..MaxElems
Ids == {"p1", "p2"}

\* the text of a representation's name span, as a sequence of characters;
\* <<>> when the representation has no name element
Names == {<<>>, <<"A", "\"">>}

Absent == [present |-> FALSE, id |-> "p1", name |-> <<>>, indicator |-> FALSE,
           containerSpeaking |-> FALSE, descendantSpeaking |-> FALSE,
           observerAttached |-> FALSE]

\* sessionStartTime before startDetection has run
NullTime == -1

\* the detector's collections and session start, threaded through its loops
DetState == [ss |-> speakingStates, last |-> lastSpeakingById, ev |-> speakerEvents,
             t0 |-> sessionStartTime]

\* getGoogleParticipantName: the name span's text when it has 2 to 49
\* characters, else the label synthesized from the id
GetGoogleParticipantName(d, e) ==
  IF Len(d[e].name) > 1 /\ Len(d[e].name) < 50
    THEN d[e].name
    ELSE <<"Google Participant (", d[e].id, ")">>

\* getGoogleParticipantId: the id the representation resolves to
GetGoogleParticipantId(d, e) == d[e].id

\* hasSpeakingIndicator: a visible indicator sub-element exists
HasSpeakingIndicator(d, e) == d[e].indicator

\* inferSpeakingFromClasses: the speaking class on the given class list (the
\* mutated node's, or the container's when none is given) or on a descendant
InferSpeakingFromClasses(d, e, target) ==
  LET onClassList == CASE target = "container" -> d[e].containerSpeaking
                       [] target = "descendant" -> d[e].descendantSpeaking
                       [] target = "other" -> FALSE
                       [] OTHER -> d[e].containerSpeaking
  IN onClassList \/ d[e].descendantSpeaking

\* sendGoogleSpeakerEvent: push onto the event log, stamped with the time
\* since the session start
SendGoogleSpeakerEvent(d, st, eventType, e) ==
  LET start == IF st.t0 = NullTime THEN now ELSE st.t0
      relativeTimestampMs == now - start
  IN [st EXCEPT !.t0 = start,
                !.ev = Append(@, [eventType |-> eventType,
                                  participantName |-> GetGoogleParticipantName(d, e),
                                  participantId |-> GetGoogleParticipantId(d, e),
                                  timestamp |-> relativeTimestampMs])]

\* logGoogleSpeakerEvent: compare with the speaking-state map, emit on change
LogGoogleSpeakerEvent(d, st, e, target) ==
  LET id == GetGoogleParticipantId(d, e)
      previousLogicalState == IF st.ss[id] = "unset" THEN "silent" ELSE st.ss[id]
      isCurrentlySpeaking == HasSpeakingIndicator(d, e) \/ InferSpeakingFromClasses(d, e, target)
  IN IF isCurrentlySpeaking
       THEN LET st1 == IF previousLogicalState # "speaking"
                         THEN SendGoogleSpeakerEvent(d, st, "SPEAKER_START", e) ELSE st
            IN [st1 EXCEPT !.ss[id] = "speaking"]
       ELSE LET st1 == IF previousLogicalState = "speaking"
                         THEN SendGoogleSpeakerEvent(d, st, "SPEAKER_END", e) ELSE st
            IN [st1 EXCEPT !.ss[id] = "silent"]

\* observeGoogleParticipant: register as silent, run the initial scan, attach
\* the MutationObserver (the attachment is recorded in the DOM by the caller)
ObserveGoogleParticipant(d, st, e) ==
  LogGoogleSpeakerEvent(d, [st EXCEPT !.ss[GetGoogleParticipantId(d, e)] = "silent"], e, "none")

\* scanForAllGoogleParticipants: observe every representation not yet observed
RECURSIVE ScanFrom(_, _, _)
ScanFrom(d, st, e) ==
  IF e > MaxElems THEN st
  ELSE ScanFrom(d, IF d[e].present /\ ~d[e].observerAttached
                     THEN ObserveGoogleParticipant(d, st, e) ELSE st, e + 1)

ScanForAllGoogleParticipants(d, st) == ScanFrom(d, st, 1)

\* the DOM after the scan: every representation on the page carries the marker
Attached(d) == [e \in Elems |-> IF d[e].present THEN [d[e] EXCEPT !.observerAttached = TRUE]
                                ELSE d[e]]

\* the body of the poll's forEach for one representation
PollContainer(d, st, e) ==
  LET id == GetGoogleParticipantId(d, e)
      indicatorSpeaking == HasSpeakingIndicator(d, e) \/ InferSpeakingFromClasses(d, e, "none")
      prev == (st.last[id] = "true")
  IN IF indicatorSpeaking /\ ~prev
       THEN [SendGoogleSpeakerEvent(d, st, "SPEAKER_START", e)
               EXCEPT !.last[id] = "true", !.ss[id] = "speaking"]
     ELSE IF ~indicatorSpeaking /\ prev
       THEN [SendGoogleSpeakerEvent(d, st, "SPEAKER_END", e)
               EXCEPT !.last[id] = "false", !.ss[id] = "silent"]
     ELSE IF st.last[id] = "unset"
       THEN [st EXCEPT !.last[id] = IF indicatorSpeaking THEN "true" ELSE "false"]
     ELSE st

\* the poll interval's callback: every representation on the page, in order
RECURSIVE PollFrom(_, _, _)
PollFrom(d, st, e) ==
  IF e > MaxElems THEN st
  ELSE PollFrom(d, IF d[e].present THEN PollContainer(d, st, e) ELSE st, e + 1)

SetDetState(st) ==
  /\ speakingStates' = st.ss
  /\ lastSpeakingById' = st.last
  /\ speakerEvents' = st.ev
  /\ sessionStartTime' = st.t0

\* startDetection: the session start is taken, the initial scan runs, then
\* the poll interval is installed
StartDetection ==
  /\ SetDetState(ScanForAllGoogleParticipants(dom, [DetState EXCEPT !.t0 = now]))
  /\ dom' = Attached(dom)
  /\ pollingInterval' = "active"
  /\ UNCHANGED now

\* the 500 ms poll of startDetection
DetectorPoll ==
  /\ pageAlive
  /\ pollingInterval = "active"
  /\ Len(speakerEvents) < MaxEvents
  /\ SetDetState(PollFrom(dom, DetState, 1))
  /\ UNCHANGED <<dom, now>>
  /\ UNCHANGED <<pageVars, histVars, auxVars, coordVars, pairVars, seqVars>>

\* the detector service's stop(): stopDetection runs in the page
SpeakerServiceStop ==
  /\ pageAlive
  /\ startState["speaker"] = "ok"
  /\ pollingInterval = "active"
  /\ pollingInterval' = StopDetection(pollingInterval)
  /\ UNCHANGED <<startupAloneTimeoutSeconds, everyoneLeftTimeoutSeconds, wd, checkInterval,
                 vexaRecordingRejected, vexaRecordingResolved, pageState, audio, video>>
  /\ UNCHANGED <<histVars, auxVars, coordVars, pairVars, restVars>>

\* the page changes representation e into `elem`; when e is observed and the
\* change is a class mutation on `target`, the MutationObserver callback runs
\* on the changed DOM
DomChange(e, elem, target) ==
  /\ pageAlive
  /\ Len(speakerEvents) < MaxEvents
  /\ dom' = [dom EXCEPT ![e] = elem]
  /\ IF target # "none" /\ elem.present /\ elem.observerAttached
       THEN SetDetState(LogGoogleSpeakerEvent(dom', DetState, e, target))
       ELSE UNCHANGED <<speakingStates, lastSpeakingById, speakerEvents, sessionStartTime>>
  /\ UNCHANGED now
  /\ UNCHANGED <<pageVars, histVars, auxVars, coordVars, pairVars, seqVars>>

\* a representation appears on the page, its name span's text among `names`
ElementAppearsWith(names) ==
  \E e \in Elems, id \in Ids, name \in names, ind \in BOOLEAN, cs \in BOOLEAN :
    /\ ~dom[e].present
    /\ DomChange(e, [present |-> TRUE, id |-> id, name |-> name, indicator |-> ind,
                     containerSpeaking |-> cs, descendantSpeaking |-> FALSE,
                     observerAttached |-> FALSE], "none")

\* a representation without a name element appears
ElementAppears == ElementAppearsWith({<<>>})

\* a representation with or without a name element appears
ElementAppearsNamed == ElementAppearsWith(Names)

\* the system clock advances
ClockAdvances ==
  /\ now < MaxClock
  /\ now' = now + TickMs
  /\ UNCHANGED <<dom, speakingStates, lastSpeakingById, speakerEvents, sessionStartTime>>
  /\ UNCHANGED <<pageVars, histVars, auxVars, coordVars, pairVars, seqVars>>

\* the system clock is set back (a time synchronization step): Date.now()
\* is the wall clock
ClockSetBack ==
  /\ now > 0
  /\ now' = now - TickMs
  /\ UNCHANGED <<dom, speakingStates, lastSpeakingById, speakerEvents, sessionStartTime>>
  /\ UNCHANGED <<pageVars, histVars, auxVars, coordVars, pairVars, seqVars>>

\* a representation is removed from the page
ElementDisappears ==
  \E e \in Elems : dom[e].present /\ DomChange(e, Absent, "none")

\* the speaking indicator becomes visible or hidden, with or without a class
\* mutation on a node of the representation
IndicatorChanges ==
  \E e \in Elems, target \in {"none", "other"} :
    /\ dom[e].present
    /\ DomChange(e, [dom[e] EXCEPT !.indicator = ~@], target)

\* a speaking class is added to or removed from the container
ContainerClassChanges ==
  \E e \in Elems :
    /\ dom[e].present
    /\ DomChange(e, [dom[e] EXCEPT !.containerSpeaking = ~@], "container")

\* a speaking class is added to or removed from a descendant
DescendantClassChanges ==
  \E e \in Elems :
    /\ dom[e].present
    /\ DomChange(e, [dom[e] EXCEPT !.descendantSpeaking = ~@], "descendant")

(* ----------------------- coordinator (control side) --------------------- *)
Pipelines == {"audio", "video", "speaker"}
PollIds == 1..MaxPolls

InitErrorOf(p) ==
  CASE p = "audio" -> "Audio recording initialization failed"
    [] p = "video" -> "Video recording initialization failed"
    [] OTHER -> "Speaker detection initialization failed"

\* (variant) one message for every failed start
StartErrorGeneric(p) == "Failed to start one or more recording services"

StartErrorOf(p) ==
  CASE p = "audio" -> "Audio recording start failed"
    [] p = "video" -> "Video recording start failed"
    [] OTHER -> "Speaker detection start failed"

\* the pipeline whose initialization the coordinator is awaiting
InitTarget ==
  CASE cpc = "init_audio" -> "audio"
    [] cpc = "init_video" -> "video"
    [] OTHER -> "speaker"

\* the async function's promise is rejected with `err`
Fail(err) ==
  /\ cpc' = "failed"
  /\ promise' = [state |-> "rejected", error |-> err]

\* the candidates in the order they are tried; the last one is taken unprobed
Candidates == <<"/home/bot-test", "/tmp/bot-recordings", "cwd/recordings", "/tmp">>

\* the candidates isWritable() is called on
Probed == 1..(Len(Candidates) - 1)

\* the if/else cascade: the first probed candidate whose isWritable() returned
\* true, else the last resort
SelectDirectory(writable) ==
  IF \E i \in Probed : writable[i]
    THEN CHOOSE i \in Probed : writable[i] /\ \A j \in 1..(i - 1) : ~writable[j]
    ELSE Len(Candidates)

\* (variant) a failed verification is logged and setup goes on
VerificationNeverThrows(ok) == FALSE

\* the try/catch around mkdirSync and the throwaway write under the chosen
\* directory: a failure is rethrown
VerificationThrows(ok) == ~ok

DirError == "Failed to create recording directories"

\* the synchronous head of startGoogleRecording: directory selection, then
\* directory creation and write verification; `writable` and `ok` are what the
\* file system answers to the probes and to the verification
SetupDirectories ==
  /\ cpc = "setup"
  /\ \E writable \in [Probed -> BOOLEAN], ok \in BOOLEAN :
       LET chosen == SelectDirectory(writable)
       IN /\ isWritableCalls' =
               [i \in 1..Len(Candidates) |->
                  IF i \in Probed /\ i <= chosen
                    THEN IF writable[i] THEN "passed" ELSE "failed"
                    ELSE "untried"]
          /\ recordingsDir' = Candidates[chosen]
          /\ verified' = IF ok THEN "passed" ELSE "failed"
          /\ IF VerificationThrows(ok)
               THEN Fail(DirError)
               ELSE cpc' = "init_audio" /\ UNCHANGED promise
  /\ UNCHANGED <<startState, checkStatus, polls, files>>
  /\ UNCHANGED <<pageVars, histVars, mainVars, tileVars>>
  /\ UNCHANGED <<pairVars, restVars>>

\* the error of a page.evaluate that fails inside an initializer or a
\* service's start(), as Playwright raises it
RawError == "page.evaluate failed"

\* one awaited initialize...() call returns or throws; `err` is what the
\* coordinator throws in the second case
InitServiceWith(ok, err) ==
  /\ cpc \in {"init_audio", "init_video", "init_speaker"}
  /\ ok => pageAlive
  /\ IF ~ok
       THEN /\ Fail(err)
            /\ startState' = [startState EXCEPT ![InitTarget] = "init_failed"]
       ELSE /\ promise' = promise
            /\ CASE cpc = "init_audio" ->
                      /\ cpc' = "init_video"
                      /\ startState' = [startState EXCEPT !["audio"] = "initialized"]
                 [] cpc = "init_video" ->
                      /\ cpc' = "init_speaker"
                      /\ startState' = [startState EXCEPT !["video"] = "initialized"]
                 [] OTHER ->
                      \* all three start() calls are issued, then Promise.all is awaited
                      /\ cpc' = "await_start"
                      /\ startState' = [p \in Pipelines |-> "pending"]
  /\ UNCHANGED <<checkStatus, polls, files>>
  /\ UNCHANGED <<pageVars, histVars, auxVars>>
  /\ UNCHANGED <<pairVars, restVars>>

\* the initialization block with its try/catch per pipeline
InitService(ok) == InitServiceWith(ok, InitErrorOf(InitTarget))

\* the initialization block of the older coordinator: three bare awaits
InitServiceOriginal(ok) == InitServiceWith(ok, RawError)

InitStep == \E ok \in BOOLEAN : InitService(ok)

InitStepOriginal == \E ok \in BOOLEAN : InitServiceOriginal(ok)

\* the page-side start of pipeline p finishes; `err` is what its start
\* promise rejects with when it fails
StartCompletesWith(p, ok, err) ==
  /\ startState[p] = "pending"
  /\ ok => pageAlive
  /\ startState' = [startState EXCEPT ![p] = IF ok THEN "ok" ELSE "failed"]
  /\ IF ok
       THEN /\ audio' = IF p = "audio" THEN RecorderStarted(audio) ELSE audio
            /\ video' = IF p = "video" THEN RecorderStarted(video) ELSE video
            /\ IF p = "speaker" THEN StartDetection
                                ELSE UNCHANGED <<pollingInterval, detVars>>
       ELSE UNCHANGED <<audio, video, pollingInterval, detVars>>
  /\ IF cpc = "await_start" /\ ~ok
       THEN Fail(err)
       ELSE IF cpc = "await_start" /\ \A q \in Pipelines : startState'[q] = "ok"
              THEN cpc' = "install" /\ UNCHANGED promise
              ELSE UNCHANGED <<cpc, promise>>
  /\ UNCHANGED <<checkStatus, polls, files>>
  /\ UNCHANGED <<startupAloneTimeoutSeconds, everyoneLeftTimeoutSeconds, wd, checkInterval,
                 vexaRecordingRejected, vexaRecordingResolved, pageState>>
  /\ UNCHANGED <<histVars, auxVars>>
  /\ UNCHANGED <<pairVars, seqVars>>

\* the start fan-out with a .catch naming the pipeline on every start()
StartCompletes(p, ok) == StartCompletesWith(p, ok, StartErrorOf(p))

\* the start fan-out of the older coordinator: Promise.all over bare start() calls
StartCompletesOriginal(p, ok) == StartCompletesWith(p, ok, RawError)

StartStep == \E p \in Pipelines, ok \in BOOLEAN : StartCompletes(p, ok)

StartStepOriginal == \E p \in Pipelines, ok \in BOOLEAN : StartCompletesOriginal(p, ok)

\* page.evaluate installing the watchdog and the page listeners, then the
\* status poll is installed and the promise is returned
InstallMonitor ==
  /\ cpc = "install"
  /\ IF pageAlive
       THEN /\ wd' = WatchdogInit
            /\ checkInterval' = "active"
            /\ cpc' = "monitoring"
            /\ checkStatus' = "active"
            /\ UNCHANGED promise
       ELSE /\ Fail(RawError)
            /\ UNCHANGED <<wd, checkInterval, checkStatus>>
  /\ UNCHANGED <<startState, polls, files>>
  /\ UNCHANGED <<startupAloneTimeoutSeconds, everyoneLeftTimeoutSeconds,
                 vexaRecordingRejected, vexaRecordingResolved, pageState, audio, video,
                 pollingInterval>>
  /\ UNCHANGED <<histVars, auxVars>>
  /\ UNCHANGED <<pairVars, restVars>>


(* ----------------------- status poll and teardown ----------------------- *)
\* pc, type and error are the callback's position and the status it read;
\* stops and saves record the stop() and save calls it has made so far
PollIdle == [pc |-> "idle", type |-> "pending", error |-> "none", stops |-> {}, saves |-> {}]

\* (variant) the resolved flag is tested first
PageStatusResolvedFirst(rejected, resolved) ==
  IF resolved THEN [type |-> "resolved", error |-> "none"]
  ELSE IF rejected # "none" THEN [type |-> "rejected", error |-> rejected]
  ELSE [type |-> "pending", error |-> "none"]

\* what the poll's page.evaluate returns: the rejected flag has priority
PageStatus(rejected, resolved) ==
  IF rejected # "none" THEN [type |-> "rejected", error |-> rejected]
  ELSE IF resolved THEN [type |-> "resolved", error |-> "none"]
  ELSE [type |-> "pending", error |-> "none"]

\* the checkStatus interval fires: a new callback sends its page.evaluate
PollTick(i) ==
  /\ checkStatus = "active"
  /\ polls[i].pc = "idle"
  /\ \A j \in PollIds : j < i => polls[j].pc # "idle"
  /\ polls' = [polls EXCEPT ![i].pc = "evaluating"]
  /\ UNCHANGED <<cpc, startState, checkStatus, promise, files>>
  /\ UNCHANGED <<pageVars, histVars, auxVars>>
  /\ UNCHANGED <<pairVars, restVars>>

\* the page answers the callback's evaluate; without a page context the
\* evaluate throws, nothing catches it and the callback ends there
PollEvaluate(i) ==
  /\ polls[i].pc = "evaluating"
  /\ IF pageAlive
       THEN LET st == PageStatus(vexaRecordingRejected, vexaRecordingResolved)
            IN polls' = [polls EXCEPT ![i].pc = "replied", ![i].type = st.type,
                                      ![i].error = st.error]
       ELSE polls' = [polls EXCEPT ![i] = PollIdle]
  /\ UNCHANGED <<cpc, startState, checkStatus, promise, files>>
  /\ UNCHANGED <<pageVars, histVars, auxVars>>
  /\ UNCHANGED <<pairVars, restVars>>

\* the callback resumes with the status: pending returns, otherwise the
\* interval is cleared and the first stop is awaited
PollResume(i) ==
  /\ polls[i].pc = "replied"
  /\ IF polls[i].type = "pending"
       THEN polls' = [polls EXCEPT ![i] = PollIdle] /\ UNCHANGED checkStatus
       ELSE /\ checkStatus' = "cleared"
            /\ polls' = [polls EXCEPT ![i].pc = "stop_audio"]
  /\ UNCHANGED <<cpc, startState, promise, files>>
  /\ UNCHANGED <<pageVars, histVars, auxVars>>
  /\ UNCHANGED <<pairVars, restVars>>

\* position after a stop or a save that returned normally
NextPc(pc) ==
  CASE pc = "stop_audio" -> "stop_video"
    [] pc = "stop_video" -> "stop_speaker"
    [] pc = "stop_speaker" -> "save_audio"
    [] pc = "save_audio" -> "save_video"
    [] pc = "save_video" -> "save_events"
    [] OTHER -> "settle"

\* the pipeline a stop position belongs to
StopTarget(pc) ==
  CASE pc = "stop_audio" -> "audio"
    [] pc = "stop_video" -> "video"
    [] OTHER -> "speaker"

\* one awaited service.stop(): runs the page-side stop; when the evaluate
\* fails the callback goes on at `pcOnThrow`
TeardownStopWith(i, pcOnThrow) ==
  /\ polls[i].pc \in {"stop_audio", "stop_video", "stop_speaker"}
  /\ IF pageAlive
       THEN /\ audio' = IF polls[i].pc = "stop_audio" THEN AudioStopRecording(audio) ELSE audio
            /\ video' = IF polls[i].pc = "stop_video" THEN VideoStopRecording(video) ELSE video
            /\ pollingInterval' = IF polls[i].pc = "stop_speaker"
                                    THEN StopDetection(pollingInterval) ELSE pollingInterval
            /\ polls' = [polls EXCEPT ![i].pc = NextPc(@),
                                      ![i].stops = @ \cup {StopTarget(polls[i].pc)}]
       ELSE /\ UNCHANGED <<audio, video, pollingInterval>>
            /\ polls' = [polls EXCEPT ![i].pc = pcOnThrow,
                                      ![i].stops = @ \cup {StopTarget(polls[i].pc)}]
  /\ UNCHANGED <<cpc, startState, checkStatus, promise, files>>
  /\ UNCHANGED <<startupAloneTimeoutSeconds, everyoneLeftTimeoutSeconds, wd, checkInterval,
                 vexaRecordingRejected, vexaRecordingResolved, pageState>>
  /\ UNCHANGED <<histVars, auxVars>>
  /\ UNCHANGED <<pairVars, restVars>>

\* a stop whose failure is caught and logged by the .catch on the call
TeardownStop(i) == TeardownStopWith(i, NextPc(polls[i].pc))

\* a stop of the older coordinator: a failure is thrown into the teardown's
\* catch, past the remaining stops and the saves
TeardownStopOriginal(i) == TeardownStopWith(i, "settle")

\* saveBlobToFile: no blob returns with a warning; a failed evaluate or a
\* failed write throws into the teardown's catch, skipping the later saves
SaveBlob(i, blob, kind, writeOk) ==
  IF ~pageAlive
    THEN polls' = [polls EXCEPT ![i].pc = "settle", ![i].saves = @ \cup {kind}]
         /\ UNCHANGED files
  ELSE IF blob = {}
    THEN polls' = [polls EXCEPT ![i].pc = NextPc(@), ![i].saves = @ \cup {kind}]
         /\ UNCHANGED files
  ELSE IF writeOk
    THEN polls' = [polls EXCEPT ![i].pc = NextPc(@), ![i].saves = @ \cup {kind}]
         /\ files' = [files EXCEPT ![kind] = blob]
  ELSE polls' = [polls EXCEPT ![i].pc = "settle", ![i].saves = @ \cup {kind}]
       /\ UNCHANGED files

(* ---- the speaker-event file ---- *)
\* the JSON escape of one character of a string
EscapeChar(c) == IF c \in {"\"", "\\"} THEN <<"\\", c>> ELSE <<c>>

RECURSIVE EscapeAll(_)
EscapeAll(cs) == IF cs = <<>> THEN <<>> ELSE EscapeChar(Head(cs)) \o EscapeAll(Tail(cs))

\* JSON.stringify of a string: quoted, with quotes and backslashes escaped
JsonString(cs) == <<"\"">> \o EscapeAll(cs) \o <<"\"">>

RECURSIVE UnescapeAll(_)
UnescapeAll(cs) ==
  IF cs = <<>> THEN <<>>
  ELSE IF Head(cs) = "\\" /\ Len(cs) > 1
    THEN <<cs[2]>> \o UnescapeAll(Tail(Tail(cs)))
    ELSE <<Head(cs)>> \o UnescapeAll(Tail(cs))

\* JSON.parse of a string literal
ParseJsonString(lit) == UnescapeAll(SubSeq(lit, 2, Len(lit) - 1))

DigitChars == <<"0", "1", "2", "3", "4", "5", "6", "7", "8", "9">>

RECURSIVE Digits(_)
Digits(n) == IF n < 10 THEN <<DigitChars[n + 1]>>
             ELSE Digits(n \div 10) \o <<DigitChars[(n % 10) + 1]>>

\* JSON.stringify of an integer
JsonNumber(n) == IF n < 0 THEN <<"-">> \o Digits(0 - n) ELSE Digits(n)

DigitValue(c) == (CHOOSE k \in 1..10 : DigitChars[k] = c) - 1

RECURSIVE DigitsValue(_)
DigitsValue(cs) == IF cs = <<>> THEN 0
                   ELSE DigitsValue(SubSeq(cs, 1, Len(cs) - 1)) * 10 + DigitValue(cs[Len(cs)])

\* JSON.parse of a number literal
ParseJsonNumber(lit) == IF Head(lit) = "-" THEN 0 - DigitsValue(Tail(lit)) ELSE DigitsValue(lit)

\* JSON.stringify of one SpeakerEvent: its four members as JSON literals
StringifyEvent(ev) ==
  [eventType |-> JsonString(<<ev.eventType>>),
   participantName |-> JsonString(ev.participantName),
   participantId |-> JsonString(<<ev.participantId>>),
   timestamp |-> JsonNumber(ev.timestamp)]

\* JSON.stringify(events, null, 2): the array's objects in order
StringifyEvents(events) == [k \in 1..Len(events) |-> StringifyEvent(events[k])]

\* JSON.parse of one object of the file
ParseEvent(obj) ==
  [eventType |-> ParseJsonString(obj.eventType)[1],
   participantName |-> ParseJsonString(obj.participantName),
   participantId |-> ParseJsonString(obj.participantId)[1],
   timestamp |-> ParseJsonNumber(obj.timestamp)]

\* JSON.parse of the file's text
ParseEvents(text) == [k \in 1..Len(text) |-> ParseEvent(text[k])]

\* no speaker-events.json on disk
NoFile == [exists |-> FALSE, text |-> <<>>]

\* speaker-events.json as fs.writeFileSync leaves it
EventsFile(events) == [exists |-> TRUE, text |-> StringifyEvents(events)]

\* nothing persisted
NoFiles == [audio |-> {}, video |-> {}, events |-> NoFile]

\* saveSpeakerEventsToFile: reads the event log and writes it
SaveEvents(i, writeOk) ==
  IF pageAlive /\ writeOk
    THEN polls' = [polls EXCEPT ![i].pc = "settle", ![i].saves = @ \cup {"events"}]
         /\ files' = [files EXCEPT !.events = EventsFile(speakerEvents)]
    ELSE polls' = [polls EXCEPT ![i].pc = "settle", ![i].saves = @ \cup {"events"}]
         /\ UNCHANGED files

TeardownSave(i, writeOk) ==
  /\ polls[i].pc \in {"save_audio", "save_video", "save_events"}
  /\ CASE polls[i].pc = "save_audio" -> SaveBlob(i, audio.blob, "audio", writeOk)
       [] polls[i].pc = "save_video" -> SaveBlob(i, video.blob, "video", writeOk)
       [] OTHER -> SaveEvents(i, writeOk)
  /\ UNCHANGED <<cpc, startState, checkStatus, promise>>
  /\ UNCHANGED <<pageVars, histVars, auxVars>>
  /\ UNCHANGED <<pairVars, restVars>>

\* reject(status.error) or resolve(): only the first call settles the promise
Settle(i) ==
  /\ polls[i].pc = "settle"
  /\ polls' = [polls EXCEPT ![i].pc = "done"]
  /\ promise' = IF promise.state # "pending" THEN promise
                ELSE IF polls[i].type = "rejected"
                  THEN [state |-> "rejected", error |-> polls[i].error]
                  ELSE [state |-> "resolved", error |-> "none"]
  /\ UNCHANGED <<cpc, startState, checkStatus, files>>
  /\ UNCHANGED <<pageVars, histVars, auxVars>>
  /\ UNCHANGED <<pairVars, restVars>>

\* the steps of one run of the checkStatus callback
PollCallback(i) ==
  \/ PollTick(i)
  \/ PollEvaluate(i)
  \/ PollResume(i)
  \/ TeardownStop(i)
  \/ \E writeOk \in BOOLEAN : TeardownSave(i, writeOk)
  \/ Settle(i)

PollStep == \E i \in PollIds : PollCallback(i)

\* the steps of one run of the older coordinator's checkStatus callback
PollCallbackOriginal(i) ==
  \/ PollTick(i)
  \/ PollEvaluate(i)
  \/ PollResume(i)
  \/ TeardownStopOriginal(i)
  \/ \E writeOk \in BOOLEAN : TeardownSave(i, writeOk)
  \/ Settle(i)

PollStepOriginal == \E i \in PollIds : PollCallbackOriginal(i)

(* ----------------------- shutdown sequencer ----------------------------- *)
Platforms == {"google_meet", "zoom", "teams"}

NotExited == [exited |-> FALSE, code |-> 0, by |-> "none"]

\* (variant) no guard: every invocation runs the sequence
GuardNever(flag) == FALSE

\* `if (isShuttingDown) return` at the top of performGracefulLeave
Guard(flag) == flag

\* the `!isShuttingDown` test in gracefulShutdown and in the exposed bridge function
WrapperGuard(flag) == flag

\* (variant) a deliberate exit is reported as a failure
FinalExitCodeNeverZero(exitCode) == IF exitCode = 0 THEN 1 ELSE exitCode

\* const finalExitCode = (exitCode === 0) ? 0 : exitCode
FinalExitCode(exitCode) == IF exitCode = 0 THEN 0 ELSE exitCode

\* (variant) every signal reported as a generic failure
SignalCodeGeneric(signal) == 1

\* exit code of a signal
SignalCode(signal) == IF signal = "SIGINT" THEN 130 ELSE 143

NewCall(trigger, exitCode, pageArg) ==
  [trigger |-> trigger, exitCode |-> exitCode, pageArg |-> pageArg, pc |-> "entered",
   leave |-> "none", grace |-> "none", pageClose |-> "none", browserClose |-> "none"]

Ignored(trigger, exitCode, pageArg) ==
  [NewCall(trigger, exitCode, pageArg) EXCEPT !.pc = "ignored"]

\* (variant) a page close that threw ends the sequence
BrowserSectionUnlessThrew(c, br) ==
  IF c.pageClose = "threw" THEN [c EXCEPT !.pc = "aborted"]
  ELSE IF br = "connected" THEN [c EXCEPT !.pc = "closing_browser"]
  ELSE [c EXCEPT !.browserClose = "skipped", !.pc = "exited"]

\* the browser-close block and process.exit: awaits close() when connected
BrowserSection(c, br) ==
  IF br = "connected" THEN [c EXCEPT !.pc = "closing_browser"]
  ELSE [c EXCEPT !.browserClose = "skipped", !.pc = "exited"]

\* (variant) page.close() is awaited whatever the state of the page
PageSectionAlways(c, pg, br) == [c EXCEPT !.pc = "closing_page"]

\* the page-close block: awaits page.close() when the page is still open
PageSection(c, pg, br) ==
  IF c.pageArg = "page" /\ pg = "open" THEN [c EXCEPT !.pc = "closing_page"]
  ELSE BrowserSection([c EXCEPT !.pageClose = "skipped"], br)

\* the platform-leave block up to its first await
LeaveSection(c, plat, pg, br) ==
  IF c.pageArg = "page" /\ pg = "open"
    THEN CASE plat = "google_meet" -> [c EXCEPT !.pc = "leaving"]
           [] plat = "teams" -> PageSection([c EXCEPT !.leave = "false"], pg, br)
           [] OTHER -> [c EXCEPT !.leave = "handled", !.grace = "waited", !.pc = "grace"]
    ELSE PageSection([c EXCEPT !.leave = "skipped"], pg, br)

\* process.exit(finalExitCode) once the invocation has reached it
ExitIfReached(c) ==
  processExit' = IF c.pc = "exited"
                   THEN [exited |-> TRUE, code |-> FinalExitCode(c.exitCode), by |-> "sequencer"]
                   ELSE processExit

\* a call of performGracefulLeave(pageArg, exitCode, trigger), run to its first await
Enter(trigger, exitCode, pageArg) ==
  IF Guard(isShuttingDown)
    THEN /\ calls' = Append(calls, Ignored(trigger, exitCode, pageArg))
         /\ UNCHANGED <<isShuttingDown, processExit>>
    ELSE LET c == LeaveSection(NewCall(trigger, exitCode, pageArg), platform, page,
                               browserInstance)
         IN /\ isShuttingDown' = TRUE
            /\ calls' = Append(calls, c)
            /\ ExitIfReached(c)

\* the module-level page handle as an argument
PageArg == IF page = "null" THEN "null" ELSE "page"

Running == ~processExit.exited

\* process.on('SIGTERM' | 'SIGINT'): gracefulShutdown(signal)
Signal(signal) ==
  /\ Running
  /\ Len(calls) < MaxCalls
  /\ IF WrapperGuard(isShuttingDown)
       THEN /\ calls' = Append(calls, Ignored(signal, SignalCode(signal), PageArg))
            /\ UNCHANGED <<isShuttingDown, processExit>>
       ELSE Enter(signal, SignalCode(signal), PageArg)
  /\ UNCHANGED <<platform, page, browserInstance, rbpc>>
  /\ UNCHANGED <<pageVars, histVars, auxVars, coordVars, pairVars, detVars>>

SignalStep == \E signal \in {"SIGINT", "SIGTERM"} : Signal(signal)

\* the page calls the exposed triggerNodeGracefulLeave
BridgeRequest ==
  /\ Running
  /\ Len(calls) < MaxCalls
  /\ rbpc \in {"handler", "handler_awaiting", "awaiting", "returned"}
  /\ page = "open"
  /\ IF WrapperGuard(isShuttingDown)
       THEN /\ calls' = Append(calls, Ignored("bridge", 0, "page"))
            /\ UNCHANGED <<isShuttingDown, processExit>>
       ELSE Enter("bridge", 0, "page")
  /\ UNCHANGED <<platform, page, browserInstance, rbpc>>
  /\ UNCHANGED <<pageVars, histVars, auxVars, coordVars, pairVars, detVars>>

\* the reject handler of the entry point: process.exit(1)
EntryPointExit ==
  processExit' = [exited |-> TRUE, code |-> 1, by |-> "entrypoint"]

\* runBot: chromium.launch
LaunchBrowser(ok) ==
  /\ Running
  /\ rbpc = "launch"
  /\ IF ok
       THEN /\ browserInstance' = "connected"
            /\ rbpc' = "new_page"
            /\ UNCHANGED processExit
       ELSE /\ EntryPointExit
            /\ UNCHANGED <<browserInstance, rbpc>>
  /\ UNCHANGED <<platform, page, isShuttingDown, calls>>
  /\ UNCHANGED <<pageVars, histVars, auxVars, coordVars, pairVars, detVars>>

\* runBot: newContext, newPage, exposeFunction, addInitScript
NewPage(ok) ==
  /\ Running
  /\ rbpc = "new_page"
  /\ ok => browserInstance = "connected"
  /\ IF ok
       THEN /\ page' = "open"
            /\ rbpc' = "handler"
            /\ UNCHANGED processExit
       ELSE /\ EntryPointExit
            /\ UNCHANGED <<page, rbpc>>
  /\ UNCHANGED <<platform, browserInstance, isShuttingDown, calls>>
  /\ UNCHANGED <<pageVars, histVars, auxVars, coordVars, pairVars, detVars>>

RunBotSetup == \E ok \in BOOLEAN : LaunchBrowser(ok) \/ NewPage(ok)

\* runBot awaits performGracefulLeave(page, exitCode, trigger); an ignored call
\* returns at once and runBot goes on to its last statement, the
\* normal_completion call
RunBotLeave(trigger, exitCode) ==
  IF Guard(isShuttingDown)
    THEN /\ calls' = calls \o
                       (IF trigger = "normal_completion"
                          THEN <<Ignored(trigger, exitCode, "page")>>
                          ELSE <<Ignored(trigger, exitCode, "page"),
                                 Ignored("normal_completion", 0, "page")>>)
         /\ rbpc' = "returned"
         /\ UNCHANGED <<isShuttingDown, processExit>>
    ELSE /\ Enter(trigger, exitCode, "page")
         /\ rbpc' = "awaiting"

\* the platform branch of runBot for platforms without a handler
RunPlatform ==
  /\ Running
  /\ rbpc = "handler"
  /\ platform # "google_meet"
  /\ IF platform = "zoom"
       THEN RunBotLeave("platform_not_implemented", 1)
       ELSE RunBotLeave("normal_completion", 0)
  /\ UNCHANGED <<platform, page, browserInstance>>
  /\ UNCHANGED <<pageVars, histVars, auxVars, coordVars, pairVars, detVars>>

\* handleGoogleMeet returns: runBot reaches the normal_completion call
HandlerReturns ==
  /\ Running
  /\ rbpc = "handler"
  /\ platform = "google_meet"
  /\ RunBotLeave("normal_completion", 0)
  /\ UNCHANGED <<platform, page, browserInstance>>
  /\ UNCHANGED <<pageVars, histVars, auxVars, coordVars, pairVars, detVars>>

\* handleGoogleMeet throws: the catch block of runBot
HandlerThrows ==
  /\ Running
  /\ rbpc = "handler"
  /\ platform = "google_meet"
  /\ RunBotLeave("platform_handler_exception", 1)
  /\ UNCHANGED <<platform, page, browserInstance>>
  /\ UNCHANGED <<pageVars, histVars, auxVars, coordVars, pairVars, detVars>>

\* handleGoogleMeet uses the performGracefulLeave callback it was given and awaits it
HandlerCallsLeave(exitCode) ==
  /\ Running
  /\ rbpc = "handler"
  /\ platform = "google_meet"
  /\ Len(calls) < MaxCalls
  /\ Enter("handler_callback", exitCode, "page")
  /\ rbpc' = IF Guard(isShuttingDown) THEN rbpc ELSE "handler_awaiting"
  /\ UNCHANGED <<platform, page, browserInstance>>
  /\ UNCHANGED <<pageVars, histVars, auxVars, coordVars, pairVars, detVars>>

HandlerStep ==
  \/ HandlerReturns
  \/ HandlerThrows
  \/ \E exitCode \in {0, 1} : HandlerCallsLeave(exitCode)

\* the awaited leaveGoogleMeet(page) returns true or false, or throws
LeaveReturns(i, outcome) ==
  /\ Running
  /\ calls[i].pc = "leaving"
  /\ LET c1 == [calls[i] EXCEPT !.leave = outcome]
         c2 == IF outcome = "true" THEN [c1 EXCEPT !.grace = "waited", !.pc = "grace"]
               ELSE PageSection(c1, page, browserInstance)
     IN calls' = [calls EXCEPT ![i] = c2] /\ ExitIfReached(c2)
  /\ UNCHANGED <<platform, page, browserInstance, isShuttingDown, rbpc>>
  /\ UNCHANGED <<pageVars, histVars, auxVars, coordVars, pairVars, detVars>>

\* the 2 s wait after a successful leave is over
GraceElapsed(i) ==
  /\ Running
  /\ calls[i].pc = "grace"
  /\ LET c2 == PageSection(calls[i], page, browserInstance)
     IN calls' = [calls EXCEPT ![i] = c2] /\ ExitIfReached(c2)
  /\ UNCHANGED <<platform, page, browserInstance, isShuttingDown, rbpc>>
  /\ UNCHANGED <<pageVars, histVars, auxVars, coordVars, pairVars, detVars>>

\* closing the page, or the browser that holds it, destroys the page's script
\* context with everything the page functions keep on window
PageContextFollows ==
  /\ pageState' = IF page' = "closed" THEN "gone" ELSE pageState
  /\ UNCHANGED <<startupAloneTimeoutSeconds, everyoneLeftTimeoutSeconds, wd, checkInterval,
                 vexaRecordingRejected, vexaRecordingResolved, audio, video,
                 pollingInterval>>

\* the awaited page.close() returns or throws
PageCloseReturns(i, ok) ==
  /\ Running
  /\ calls[i].pc = "closing_page"
  /\ page' = IF ok THEN "closed" ELSE page
  /\ LET c1 == [calls[i] EXCEPT !.pageClose = IF ok THEN "ok" ELSE "threw"]
         c2 == BrowserSection(c1, browserInstance)
     IN calls' = [calls EXCEPT ![i] = c2] /\ ExitIfReached(c2)
  /\ UNCHANGED <<platform, browserInstance, isShuttingDown, rbpc>>
  /\ PageContextFollows
  /\ UNCHANGED <<histVars, auxVars, coordVars, pairVars, detVars>>

\* the awaited browserInstance.close() returns or throws; process.exit follows
BrowserCloseReturns(i, ok) ==
  /\ Running
  /\ calls[i].pc = "closing_browser"
  /\ browserInstance' = IF ok THEN "disconnected" ELSE browserInstance
  /\ page' = IF ok /\ page = "open" THEN "closed" ELSE page
  /\ LET c2 == [calls[i] EXCEPT !.browserClose = IF ok THEN "ok" ELSE "threw",
                                !.pc = "exited"]
     IN calls' = [calls EXCEPT ![i] = c2] /\ ExitIfReached(c2)
  /\ UNCHANGED <<platform, isShuttingDown, rbpc>>
  /\ PageContextFollows
  /\ UNCHANGED <<histVars, auxVars, coordVars, pairVars, detVars>>

SequenceStep ==
  \E i \in 1..Len(calls) :
    \/ \E outcome \in {"true", "false", "threw"} : LeaveReturns(i, outcome)
    \/ GraceElapsed(i)
    \/ \E ok \in BOOLEAN : PageCloseReturns(i, ok)
    \/ \E ok \in BOOLEAN : BrowserCloseReturns(i, ok)

\* the page is closed from outside the sequencer (the meeting ends, the tab closes)
PageClosedOutside ==
  /\ Running
  /\ page = "open"
  /\ page' = "closed"
  /\ UNCHANGED <<platform, browserInstance, isShuttingDown, rbpc, calls, processExit>>
  /\ PageContextFollows
  /\ UNCHANGED <<histVars, auxVars, coordVars, pairVars, detVars>>

\* the browser process is lost
BrowserLost ==
  /\ Running
  /\ browserInstance = "connected"
  /\ browserInstance' = "disconnected"
  /\ page' = IF page = "open" THEN "closed" ELSE page
  /\ UNCHANGED <<platform, isShuttingDown, rbpc, calls, processExit>>
  /\ PageContextFollows
  /\ UNCHANGED <<histVars, auxVars, coordVars, pairVars, detVars>>

(* ----------------------- participant helper ----------------------------- *)
\* String.prototype.trim on a sequence of characters
Whitespace == {" "}

RECURSIVE TrimStart(_)
TrimStart(t) ==
  IF t # <<>> /\ Head(t) \in Whitespace THEN TrimStart(Tail(t)) ELSE t

RECURSIVE TrimEnd(_)
TrimEnd(t) ==
  IF t # <<>> /\ t[Len(t)] \in Whitespace THEN TrimEnd(SubSeq(t, 1, Len(t) - 1)) ELSE t

Trim(t) == TrimEnd(TrimStart(t))

\* the test both loops apply to a trimmed text
NameLike(text, bot) ==
  /\ text # <<>>
  /\ (Len(text) > 1 /\ Len(text) < 50) \/ (bot # <<>> /\ text = bot)

\* the texts pushed by one of the two loops: nodes selected by `sel`, in order
RECURSIVE PushedBy(_, _, _)
PushedBy(nodes, bot, kind) ==
  IF nodes = <<>> THEN <<>>
  ELSE LET text == Trim(Head(nodes).text)
           rest == PushedBy(Tail(nodes), bot, kind)
       IN IF Head(nodes)[kind] /\ NameLike(text, bot) THEN <<text>> \o rest ELSE rest

\* the array before deduplication: childless elements first, tooltips after
Pushed(main, bot) == PushedBy(main, bot, "leaf") \o PushedBy(main, bot, "tooltip")

\* (variant) the array is returned as pushed
UniqueKeepAll(list) == list

\* Array.from(new Set(list)): first occurrences, in order
RECURSIVE Unique(_)
Unique(list) ==
  IF list = <<>> THEN <<>>
  ELSE LET front == Unique(SubSeq(list, 1, Len(list) - 1))
           last == list[Len(list)]
       IN IF \E k \in 1..Len(front) : front[k] = last THEN front ELSE Append(front, last)

ExtractParticipantsFromMain(main, bot) == Unique(Pushed(main, bot))

GetActiveParticipants(main, bot) == ExtractParticipantsFromMain(main, bot)

GetActiveParticipantsCount(main, bot) == Len(GetActiveParticipants(main, bot))

\* the texts and kinds of node the <main> element is given
Long == [k \in 1..50 |-> "x"]
Texts == {<<" ">>, <<"B">>, <<"A", "n">>, <<" ", "A", "n", " ">>, Long}
Nodes == {n \in [text : Texts, leaf : BOOLEAN, tooltip : BOOLEAN] : n.leaf \/ n.tooltip}
BotNames == {<<>>, <<"B">>}

\* Meet adds a node under <main>
NodeAdded ==
  /\ pageAlive
  /\ Len(mainElement) < MaxNodes
  /\ \E n \in Nodes : mainElement' = Append(mainElement, n)
  /\ UNCHANGED <<botName, participants, tileVars, dirVars>>
  /\ UNCHANGED <<pageVars, histVars, coordVars, pairVars, restVars>>

\* Meet removes a node
NodeRemoved ==
  /\ pageAlive
  /\ \E k \in 1..Len(mainElement) :
       mainElement' = SubSeq(mainElement, 1, k - 1) \o SubSeq(mainElement, k + 1, Len(mainElement))
  /\ UNCHANGED <<botName, participants, tileVars, dirVars>>
  /\ UNCHANGED <<pageVars, histVars, coordVars, pairVars, restVars>>

\* a watchdog tick whose count comes from __vexaGetActiveParticipantsCount
ParticipantTick ==
  /\ Tick(GetActiveParticipantsCount(mainElement, botName))
  /\ participants' = GetActiveParticipants(mainElement, botName)
  /\ UNCHANGED <<mainElement, botName, pairVars, tileVars, dirVars>>

(* ----------------------- participant id resolution --------------------- *)
\* getAttribute results: "null" when the attribute is missing, "" when empty
AttrValues == {"null", "", "pid"}
\* the [jsinstance] child: none, or its attribute's value
ChildValues == {"nochild", "", "jsi"}
\* 'gm-id-' + Math.random().toString(36).substr(2, 9)
GeneratedIds == {"gm-id-x", "gm-id-y"}

\* `!id` on what getAttribute returned
Falsy(v) == v \in {"null", "nochild", ""}

\* getGoogleParticipantId: the id returned and the representation afterwards
\* (the generated id is stored on the element's dataset); `random` is what
\* Math.random would give this call
GetGoogleParticipantIdOn(t, random) ==
  LET id1 == t.attr
      id2 == IF Falsy(id1) THEN t.child ELSE id1
  IN IF ~Falsy(id2)
       THEN [id |-> id2, tile |-> t]
       ELSE LET t1 == IF t.generated = "unset" THEN [t EXCEPT !.generated = random] ELSE t
            IN [id |-> t1.generated, tile |-> t1]

\* a caller (scan, observer callback, poll, event emission) resolves the id
TileResolves ==
  /\ pageAlive
  /\ Len(resolvedIds) < MaxResolutions
  /\ \E random \in GeneratedIds :
       LET r == GetGoogleParticipantIdOn(tile, random)
       IN tile' = r.tile /\ resolvedIds' = Append(resolvedIds, r.id)
  /\ UNCHANGED <<mainVars, dirVars>>
  /\ UNCHANGED <<pageVars, histVars, coordVars, pairVars, restVars>>

\* Meet sets, changes or removes data-participant-id on the representation
TileAttributeChanges ==
  /\ pageAlive
  /\ \E a \in AttrValues \ {tile.attr} : tile' = [tile EXCEPT !.attr = a]
  /\ UNCHANGED <<resolvedIds, mainVars, dirVars>>
  /\ UNCHANGED <<pageVars, histVars, coordVars, pairVars, restVars>>

\* Meet renders, changes or removes the nested [jsinstance] child
TileChildChanges ==
  /\ pageAlive
  /\ \E c \in ChildValues \ {tile.child} : tile' = [tile EXCEPT !.child = c]
  /\ UNCHANGED <<resolvedIds, mainVars, dirVars>>
  /\ UNCHANGED <<pageVars, histVars, coordVars, pairVars, restVars>>

(* ----------------------- initial conditions ----------------------------- *)
\* the page before the recording function has touched it
PageIdle(startupT, leftT) ==
  /\ startupAloneTimeoutSeconds = startupT
  /\ everyoneLeftTimeoutSeconds = leftT
  /\ wd = WatchdogInit
  /\ checkInterval = "none"
  /\ vexaRecordingRejected = "none"
  /\ vexaRecordingResolved = FALSE
  /\ pageState = "loaded"
  /\ audio = RecorderInit
  /\ video = RecorderInit
  /\ pollingInterval = "none"

HistIdle == startupTicks = 0 /\ everMulti = FALSE /\ aloneRun = 0 /\ progress = NoProgress

\* startGoogleRecording has just been called
CoordIdle ==
  /\ cpc = "init_audio"
  /\ startState = [p \in Pipelines |-> "idle"]
  /\ checkStatus = "none"
  /\ polls = [i \in PollIds |-> PollIdle]
  /\ promise = [state |-> "pending", error |-> "none"]
  /\ files = NoFiles

\* the state right after the watchdog and the status poll are installed
Monitoring(startupT, leftT) ==
  /\ startupAloneTimeoutSeconds = startupT
  /\ everyoneLeftTimeoutSeconds = leftT
  /\ wd = WatchdogInit
  /\ checkInterval = "active"
  /\ vexaRecordingRejected = "none"
  /\ vexaRecordingResolved = FALSE
  /\ pageState = "loaded"
  /\ audio = RecorderStarted(RecorderInit)
  /\ video = RecorderStarted(RecorderInit)
  /\ pollingInterval = "active"
  /\ cpc = "monitoring"
  /\ startState = [p \in Pipelines |-> "ok"]
  /\ checkStatus = "active"
  /\ polls = [i \in PollIds |-> PollIdle]
  /\ promise = [state |-> "pending", error |-> "none"]
  /\ files = NoFiles

PairIdle == wdB = WatchdogInit /\ checkIntervalB = "none" /\ rejectedB = "none"

\* runBot inside the Google Meet handler, nothing shutting down
SeqHandlerRunning ==
  /\ platform = "google_meet"
  /\ page = "open"
  /\ browserInstance = "connected"
  /\ isShuttingDown = FALSE
  /\ rbpc = "handler"
  /\ calls = <<>>
  /\ processExit = NotExited

\* module state when runBot is called
SeqStart ==
  /\ platform \in Platforms
  /\ page = "null"
  /\ browserInstance = "null"
  /\ isShuttingDown = FALSE
  /\ rbpc = "launch"
  /\ calls = <<>>
  /\ processExit = NotExited

\* the detector's collections as initializeSpeakerDetection creates them
DetIdle ==
  /\ dom = [e \in Elems |-> Absent]
  /\ speakingStates = [id \in Ids |-> "unset"]
  /\ lastSpeakingById = [id \in Ids |-> "unset"]
  /\ speakerEvents = <<>>
  /\ sessionStartTime = NullTime
  /\ now = 0

\* an empty <main>, no bot name configured, the helper not yet called
MainIdle ==
  /\ mainElement = <<>>
  /\ botName = <<>>
  /\ participants = <<>>

\* a representation with an explicit id, never resolved
TileIdle ==
  /\ tile = [attr |-> "pid", child |-> "nochild", generated |-> "unset"]
  /\ resolvedIds = <<>>

\* setup has taken the preferred directory
DirIdle ==
  /\ recordingsDir = Candidates[1]
  /\ isWritableCalls = [i \in 1..Len(Candidates) |-> IF i = 1 THEN "passed" ELSE "untried"]
  /\ verified = "passed"

AuxIdle == MainIdle /\ TileIdle /\ DirIdle

vars == <<pageVars, histVars, coordVars, pairVars, seqVars, detVars, auxVars>>

(* ----------------------- coordinator specification ---------------------- *)
\* one configuration; the watchdog specification explores the others
Init ==
  /\ PageIdle(2, 1) /\ HistIdle /\ AuxIdle /\ CoordIdle
  /\ PairIdle /\ SeqHandlerRunning /\ DetIdle

Next ==
  \/ InitStep
  \/ StartStep
  \/ InstallMonitor
  \/ WatchdogTick
  \/ BeforeUnload
  \/ VisibilityHidden
  \/ PageUnloaded
  \/ PageGone
  \/ AudioData
  \/ VideoData
  \/ PollStep

Spec == Init /\ [][Next]_vars

\* the coordinator without page crashes: the page's context goes away only
\* by the unload its beforeunload event announced
NextLive ==
  \/ InitStep
  \/ StartStep
  \/ InstallMonitor
  \/ WatchdogTick
  \/ BeforeUnload
  \/ VisibilityHidden
  \/ PageUnloaded
  \/ AudioData
  \/ VideoData
  \/ PollStep

\* the status poll's timer keeps firing and every callback's awaited calls
\* return; the page's events, and the page going away, are not forced
SpecLive == Init /\ [][NextLive]_vars /\ \A i \in PollIds : WF_vars(PollCallback(i))

(* ----------------------- the older coordinator -------------------------- *)
\* the copy of startGoogleRecording without per-call error handling
NextOriginal ==
  \/ InitStepOriginal
  \/ StartStepOriginal
  \/ InstallMonitor
  \/ WatchdogTick
  \/ BeforeUnload
  \/ VisibilityHidden
  \/ PageUnloaded
  \/ PageGone
  \/ AudioData
  \/ VideoData
  \/ PollStepOriginal

SpecOriginal == Init /\ [][NextOriginal]_vars

(* ----------------------- watchdog specification ------------------------- *)
InitWatchdog ==
  /\ \E startupT \in 1..MaxStartupTimeout, leftT \in 1..MaxLeftTimeout :
       Monitoring(startupT, leftT)
  /\ HistIdle /\ AuxIdle /\ PairIdle /\ SeqHandlerRunning /\ DetIdle

NextWatchdog ==
  \/ WatchdogTick
  \/ BeforeUnload
  \/ VisibilityHidden
  \/ PageUnloaded
  \/ PageGone

SpecWatchdog == InitWatchdog /\ [][NextWatchdog]_vars

(* ----------------------- participant count specification --------------- *)
InitParticipants ==
  /\ Monitoring(2, 1)
  /\ HistIdle /\ TileIdle /\ DirIdle /\ PairIdle /\ SeqHandlerRunning /\ DetIdle
  /\ mainElement = <<>>
  /\ botName \in BotNames
  /\ participants = <<>>

NextParticipants == NodeAdded \/ NodeRemoved \/ ParticipantTick

SpecParticipants == InitParticipants /\ [][NextParticipants]_vars

(* ----------------------- progress log specification -------------------- *)
\* timeouts long enough for the tick to reach a progress line before firing
InitProgress ==
  /\ \E startupT \in (LogEvery + 1)..MaxLongTimeout, leftT \in {MaxLeftTimeout, MaxLongTimeout} :
       Monitoring(startupT, leftT)
  /\ HistIdle /\ AuxIdle /\ PairIdle /\ SeqHandlerRunning /\ DetIdle

SpecProgress == InitProgress /\ [][NextWatchdog]_vars

(* ----------------------- participant id specification ------------------ *)
InitParticipantId ==
  /\ PageIdle(2, 1) /\ HistIdle /\ MainIdle /\ DirIdle /\ CoordIdle
  /\ PairIdle /\ SeqHandlerRunning /\ DetIdle
  /\ tile \in [attr : AttrValues, child : ChildValues, generated : {"unset"}]
  /\ resolvedIds = <<>>

NextParticipantId == TileResolves \/ TileAttributeChanges \/ TileChildChanges

SpecParticipantId == InitParticipantId /\ [][NextParticipantId]_vars

(* ----------------------- setup specification ---------------------------- *)
\* startGoogleRecording has just been called; nothing has been probed
InitSetup ==
  /\ PageIdle(2, 1) /\ HistIdle /\ MainIdle /\ TileIdle
  /\ PairIdle /\ SeqHandlerRunning /\ DetIdle
  /\ recordingsDir = Candidates[1]
  /\ isWritableCalls = [i \in 1..Len(Candidates) |-> "untried"]
  /\ verified = "untried"
  /\ cpc = "setup"
  /\ startState = [p \in Pipelines |-> "idle"]
  /\ checkStatus = "none"
  /\ polls = [i \in PollIds |-> PollIdle]
  /\ promise = [state |-> "pending", error |-> "none"]
  /\ files = NoFiles

NextSetup == SetupDirectories \/ InitStep \/ StartStep \/ InstallMonitor \/ PageGone

SpecSetup == InitSetup /\ [][NextSetup]_vars

(* ----------------------- two watchdogs in lockstep ---------------------- *)
\* the second watchdog's tick, on its own variables
TickB(count) ==
  /\ checkIntervalB = "active"
  /\ LET w == WatchdogStep(wdB, count, startupAloneTimeoutSeconds, everyoneLeftTimeoutSeconds)
     IN /\ wdB' = w
        /\ checkIntervalB' = IF w.reason # "none" THEN "cleared" ELSE checkIntervalB
        /\ rejectedB' = IF w.reason # "none" THEN w.reason ELSE rejectedB

\* both watchdogs tick; their counts are equal or both in {0, 1}
TickPair ==
  \E c1 \in Counts, c2 \in Counts :
    /\ c1 = c2 \/ (c1 <= 1 /\ c2 <= 1)
    /\ Tick(c1)
    /\ TickB(c2)
    /\ UNCHANGED auxVars

UnloadPair ==
  /\ BeforeUnloadHandler
  /\ checkIntervalB' = "cleared"
  /\ UNCHANGED <<wdB, rejectedB>>

HiddenPair ==
  /\ VisibilityHiddenHandler
  /\ checkIntervalB' = "cleared"
  /\ UNCHANGED <<wdB, rejectedB>>

InitPair ==
  /\ \E startupT \in 1..MaxStartupTimeout, leftT \in 1..MaxLeftTimeout :
       Monitoring(startupT, leftT)
  /\ wdB = WatchdogInit /\ checkIntervalB = "active" /\ rejectedB = "none"
  /\ HistIdle /\ AuxIdle /\ SeqHandlerRunning /\ DetIdle

NextPair == TickPair \/ UnloadPair \/ HiddenPair \/ PageUnloaded \/ PageGone

SpecPair == InitPair /\ [][NextPair]_vars

(* ----------------------- session specification -------------------------- *)
\* the coordinator and the shutdown sequencer in one process, from the moment
\* the monitors are installed; process.exit ends the coordinator's callbacks
InitSession ==
  /\ Monitoring(2, 1)
  /\ HistIdle /\ AuxIdle /\ PairIdle /\ SeqHandlerRunning /\ DetIdle

SessionPoll == Running /\ PollStep

\* the first termination request that reaches the sequencer from outside the
\* platform handler; the guard's treatment of later ones is the shutdown
\* specification's subject
SessionSignal == calls = <<>> /\ SignalStep

SessionBridge == calls = <<>> /\ BridgeRequest

NextSession ==
  \/ WatchdogTick
  \/ BeforeUnload
  \/ PageUnloaded
  \/ SessionPoll
  \/ SessionSignal
  \/ SessionBridge
  \/ SequenceStep

SpecSession == InitSession /\ [][NextSession]_vars

(* ----------------------- capture specification -------------------------- *)
\* the recording from the moment the monitors are installed, with the data
\* events of the two recorders, the last one after stop() included; the page
\* event is the one that leaves the page in place for the coordinator's stops
\* the watchdog's tick with the bot alone in the meeting, the run of counts
\* that ends in a timeout
AloneTick == Tick(1) /\ UNCHANGED <<pairVars, auxVars>>

NextCapture ==
  \/ AloneTick
  \/ VisibilityHidden
  \/ AudioData
  \/ VideoData
  \/ AudioFinalData
  \/ VideoFinalData
  \/ PollStep

SpecCapture == InitSession /\ [][NextCapture]_vars

(* ----------------------- shutdown specification ------------------------- *)
InitShutdown ==
  /\ PageIdle(2, 1) /\ HistIdle /\ AuxIdle /\ CoordIdle
  /\ PairIdle /\ SeqStart /\ DetIdle

NextShutdown ==
  \/ SignalStep
  \/ BridgeRequest
  \/ RunBotSetup
  \/ RunPlatform
  \/ HandlerStep
  \/ SequenceStep
  \/ PageClosedOutside
  \/ BrowserLost

SpecShutdown == InitShutdown /\ [][NextShutdown]_vars

\* every awaited step of the sequence returns or throws, and the 2 s timer fires
SpecShutdownLive == InitShutdown /\ [][NextShutdown]_vars /\ WF_vars(SequenceStep)

(* ----------------------- detector specification ------------------------- *)
\* the start fan-out has been issued, the recorders have started, the
\* detector's start is still pending
InitDetector ==
  /\ PageIdle(2, 1) /\ HistIdle /\ AuxIdle /\ PairIdle /\ SeqHandlerRunning /\ DetIdle
  /\ cpc = "await_start"
  /\ startState = [p \in Pipelines |-> "pending"]
  /\ checkStatus = "none"
  /\ polls = [i \in PollIds |-> PollIdle]
  /\ promise = [state |-> "pending", error |-> "none"]
  /\ files = NoFiles

NextDetector ==
  \/ \E ok \in BOOLEAN : StartCompletes("speaker", ok)
  \/ DetectorPoll
  \/ SpeakerServiceStop
  \/ ElementAppears
  \/ ElementDisappears
  \/ IndicatorChanges
  \/ ContainerClassChanges
  \/ DescendantClassChanges

SpecDetector == InitDetector /\ [][NextDetector]_vars

\* the 500 ms interval keeps firing while it is installed
SpecDetectorLive == InitDetector /\ [][NextDetector]_vars /\ WF_vars(DetectorPoll)

(* ----------------------- event log specification ----------------------- *)
\* saveSpeakerEventsToFile called on a running page
SaveSpeakerEvents ==
  /\ pageAlive
  /\ startState["speaker"] = "ok"
  /\ files' = [files EXCEPT !.events = EventsFile(speakerEvents)]
  /\ UNCHANGED <<cpc, startState, checkStatus, polls, promise>>
  /\ UNCHANGED <<pageVars, histVars, auxVars, pairVars, restVars>>

NextEventLog ==
  \/ \E ok \in BOOLEAN : StartCompletes("speaker", ok)
  \/ DetectorPoll
  \/ ElementAppearsNamed
  \/ IndicatorChanges
  \/ ClockAdvances
  \/ ClockSetBack
  \/ SaveSpeakerEvents

SpecEventLog == InitDetector /\ [][NextEventLog]_vars

(* ----------------------- properties: speaker detector ------------------- *)
\* the events of the log that belong to participant id, in log order
EventsOf(id) == SelectSeq(speakerEvents, LAMBDA ev : ev.participantId = id)

\* START, END, START, ... starting with START
Alternates(s) ==
  \A k \in 1..Len(s) :
    s[k].eventType = IF k % 2 = 1 THEN "SPEAKER_START" ELSE "SPEAKER_END"

\* C1: for every participant id, the events logged for that id strictly
\* alternate SPEAKER_START, SPEAKER_END, ... starting with SPEAKER_START,
\* whatever the interleaving of mutation callbacks and polls.
C1_EventsAlternate == \A id \in Ids : Alternates(EventsOf(id))

(* ----------------------- properties: shutdown sequencer ----------------- *)
CallIds == 1..Len(calls)

PastGuard(i) == calls[i].pc # "ignored"

NoStep(i) ==
  calls[i].leave = "none" /\ calls[i].pageClose = "none" /\ calls[i].browserClose = "none"

\* C2: however many invocations of performGracefulLeave arrive, and wherever
\* the earlier one is waiting, at most one of them gets past the guard and
\* runs teardown steps, every other one runs no step, the guard is set exactly
\* when an invocation got past it, it is never reset, and a process exit,
\* once made, is never made again.
C2_OneShutdownSequence ==
  /\ [](/\ Cardinality({i \in CallIds : PastGuard(i)}) <= 1
        /\ \A i \in CallIds : ~PastGuard(i) => NoStep(i)
        /\ isShuttingDown <=> (\E i \in CallIds : PastGuard(i)))
  /\ [][/\ isShuttingDown => isShuttingDown'
        /\ processExit.exited => processExit' = processExit]_vars

\* C2 witness: the sequencer has exited the process although two further
\* invocations arrived.
C2_Witness ==
  /\ processExit.by = "sequencer"
  /\ Cardinality({i \in CallIds : ~PastGuard(i)}) >= 2

C4_ExitCodePreserved ==
  processExit.by = "sequencer" =>
    \E i \in CallIds : /\ calls[i].pc = "exited"
                       /\ processExit.code = calls[i].exitCode
                       /\ processExit.code \in {0, 1, 130, 143}

\* C4 witness: the leave failed and the browser close threw, and the process
\* still exited with the initiating code 0.
C4_Witness ==
  /\ processExit.by = "sequencer"
  /\ processExit.code = 0
  /\ \E i \in CallIds : /\ calls[i].pc = "exited"
                        /\ calls[i].exitCode = 0
                        /\ calls[i].leave \in {"false", "threw"}
                        /\ calls[i].browserClose = "threw"

(* ----------------------- properties: watchdog --------------------------- *)
Fired == wd.reason # "none"

\* C5: while no tick has read a count > 1, the watchdog raises the startup
\* reason exactly at tick number startupAloneTimeoutSeconds, not earlier and
\* not later, with speakersIdentified still false.
C5_StartupTimeoutExact ==
  ~everMulti =>
    /\ Fired => /\ wd.reason = STARTUP_ALONE
                /\ vexaRecordingRejected = STARTUP_ALONE
                /\ startupTicks = startupAloneTimeoutSeconds
                /\ ~wd.speakersIdentified
    /\ ~Fired => startupTicks < startupAloneTimeoutSeconds

\* C5 witness: the startup reason raised after more than one tick, the last
\* of which read one participant.
C5_Witness ==
  /\ ~everMulti
  /\ vexaRecordingRejected = STARTUP_ALONE
  /\ startupAloneTimeoutSeconds > 1
  /\ wd.lastParticipantCount = 1

\* C6: a raised reason is the left-alone one exactly when an earlier tick
\* read a count > 1, and the startup one otherwise.
C6_ReasonByHistory ==
  Fired =>
    /\ wd.reason = LEFT_ALONE <=> everMulti
    /\ wd.reason = STARTUP_ALONE <=> ~everMulti
    /\ vexaRecordingRejected = wd.reason

\* C6 witness: the left-alone reason raised after the count had gone back
\* to at most one.
C6_Witness ==
  /\ vexaRecordingRejected = LEFT_ALONE
  /\ everMulti
  /\ wd.lastParticipantCount <= 1

\* C7: once a tick has read a count > 1, the watchdog raises the left-alone
\* reason exactly when the run of consecutive ticks with count <= 1 reaches
\* everyoneLeftTimeoutSeconds, and not before; the startup threshold plays no
\* part.
C7_LeftAloneExact ==
  everMulti =>
    /\ Fired => /\ wd.reason = LEFT_ALONE
                /\ aloneRun = everyoneLeftTimeoutSeconds
    /\ ~Fired => aloneRun < everyoneLeftTimeoutSeconds

\* C7 witness: the left-alone reason raised after a run longer than one tick,
\* under a configuration whose startup threshold is larger.
C7_Witness ==
  /\ everMulti
  /\ Fired
  /\ everyoneLeftTimeoutSeconds > 1
  /\ startupAloneTimeoutSeconds > everyoneLeftTimeoutSeconds

\* C8: speakersIdentified is true after every tick that read a count > 1 and
\* no later tick sets it back to false.
C8_SpeakersIdentifiedMonotonic ==
  /\ [](everMulti => wd.speakersIdentified)
  /\ [][wd.speakersIdentified => wd'.speakersIdentified]_vars

\* C8 witness: the flag is still set after the count fell from above one to 0.
C8_Witness ==
  /\ wd.speakersIdentified
  /\ everMulti
  /\ wd.lastParticipantCount = 0
  /\ wd.aloneTime > 0

\* C9: two watchdogs whose count sequences differ only in 0s and 1s go through
\* the same aloneTime and speakersIdentified values at every tick and fire at
\* the same tick with the same reason.
C9_ZeroAndOneAlike ==
  /\ wd.aloneTime = wdB.aloneTime
  /\ wd.speakersIdentified = wdB.speakersIdentified
  /\ wd.hasEverHadMultipleParticipants = wdB.hasEverHadMultipleParticipants
  /\ wd.reason = wdB.reason
  /\ checkInterval = checkIntervalB
  /\ vexaRecordingRejected = rejectedB

\* C9 witness: both watchdogs have fired, the last counts they recorded differ.
C9_Witness ==
  /\ Fired
  /\ wdB.reason # "none"
  /\ wd.lastParticipantCount # wdB.lastParticipantCount

(* ----------------------- properties: recording promise ------------------ *)
\* C10: once monitoring, the promise resolves when the deliberate-end flag is
\* set and the watchdog has not fired, rejects with the watchdog's reason when
\* the watchdog has fired, and stays pending while neither flag is set.
C10_PromiseFollowsFlags ==
  /\ [](cpc = "monitoring" =>
          /\ promise.state = "resolved" =>
               vexaRecordingResolved /\ vexaRecordingRejected = "none"
          /\ promise.state = "rejected" =>
               vexaRecordingRejected # "none" /\ promise.error = vexaRecordingRejected
          /\ (~vexaRecordingResolved /\ vexaRecordingRejected = "none") =>
               promise.state = "pending")
  /\ (cpc = "monitoring" /\ vexaRecordingResolved /\ vexaRecordingRejected = "none")
       ~> (promise.state = "resolved")
  /\ (cpc = "monitoring" /\ vexaRecordingRejected # "none")
       ~> (promise.state = "rejected")


(* ----------------------- properties: start-up failures ------------------ *)
\* the pipeline an error message names, "none" when it names no pipeline
PipelineNamed(err) ==
  CASE err \in {"Audio recording initialization failed", "Audio recording start failed"} -> "audio"
    [] err \in {"Video recording initialization failed", "Video recording start failed"} -> "video"
    [] err \in {"Speaker detection initialization failed", "Speaker detection start failed"} -> "speaker"
    [] OTHER -> "none"

\* the pipelines initialized after p
LaterThan(p) ==
  CASE p = "audio" -> {"video", "speaker"}
    [] p = "video" -> {"speaker"}
    [] OTHER -> {}

NothingStarted ==
  /\ \A q \in Pipelines : startState[q] \in {"idle", "initialized", "init_failed"}
  /\ audio.rec = "none"
  /\ video.rec = "none"
  /\ pollingInterval = "none"

\* C11: the pipelines are initialized one after the other in the order audio,
\* video, speaker detector; when the initialization of one fails, no later
\* pipeline is initialized, no pipeline is started, and startGoogleRecording
\* fails with an error naming the failed pipeline.
C11_InitFailureNamesPipeline ==
  /\ \A p \in Pipelines :
       startState[p] \in {"initialized", "init_failed"} =>
         \A q \in Pipelines : p \in LaterThan(q) => startState[q] = "initialized"
  /\ \A p \in Pipelines :
       startState[p] = "init_failed" =>
         /\ cpc = "failed"
         /\ promise.state = "rejected"
         /\ PipelineNamed(promise.error) = p
         /\ \A q \in LaterThan(p) : startState[q] = "idle"
         /\ NothingStarted

\* C12: when the start of a pipeline fails, startGoogleRecording fails with an
\* error naming a pipeline whose start failed, the watchdog and the status
\* poll are never installed, and no file is written.
C12_StartFailureFailsRecording ==
  (\E p \in Pipelines : startState[p] = "failed") =>
    /\ cpc = "failed"
    /\ promise.state = "rejected"
    /\ PipelineNamed(promise.error) \in Pipelines
    /\ startState[PipelineNamed(promise.error)] = "failed"
    /\ checkInterval = "none"
    /\ checkStatus = "none"
    /\ \A i \in PollIds : polls[i] = PollIdle
    /\ files = NoFiles

\* a start failed while another pipeline had already started
C12_Witness ==
  /\ startState["video"] = "failed"
  /\ startState["audio"] = "ok"
  /\ promise.state = "rejected"

(* ----------------------- properties: teardown --------------------------- *)
\* C13: a callback that has read a terminal status and finished its teardown
\* has invoked stop on all three pipelines and has attempted to persist the
\* audio file, the video file and the speaker-event log.
C13_TeardownStopsAndSavesAll ==
  \A i \in PollIds :
    polls[i].pc \in {"settle", "done"} =>
      /\ polls[i].stops = Pipelines
      /\ polls[i].saves = {"audio", "video", "events"}

(* ----------------------- properties: detector stop ---------------------- *)
\* the detector was started and its stop() has returned
DetectorStopped == startState["speaker"] = "ok" /\ pollingInterval = "none"

\* C14: once the detector's stop() has returned, no step (mutation
\* notification or timer tick) appends an event to the event log.
C14_NoEventAfterStop ==
  [][DetectorStopped => speakerEvents' = speakerEvents]_vars

(* ----------------------- properties: event file ------------------------- *)
\* a write of the speaker-event file leaves a text that parses back to the
\* event log
FileRoundTrips ==
  files'.events # files.events => ParseEvents(files'.events.text) = speakerEvents

\* event k closes the pair that event j of the same participant opened
PairOf(j, k) ==
  /\ j < k
  /\ speakerEvents[j].participantId = speakerEvents[k].participantId
  /\ speakerEvents[j].eventType = "SPEAKER_START"
  /\ speakerEvents[k].eventType = "SPEAKER_END"
  /\ \A m \in (j + 1)..(k - 1) :
       speakerEvents[m].participantId # speakerEvents[k].participantId

TimestampsOrdered ==
  /\ \A k \in 1..Len(speakerEvents) : speakerEvents[k].timestamp >= 0
  /\ \A j, k \in 1..Len(speakerEvents) :
       PairOf(j, k) => speakerEvents[k].timestamp >= speakerEvents[j].timestamp

\* C15: the speaker-event file, parsed back, is the detector's event log with
\* the same order, type, participant id, participant name and timestamp;
\* every timestamp is >= 0, and the SPEAKER_END of a participant's pair is not
\* earlier than its SPEAKER_START.
C15_EventFileFaithful == [][FileRoundTrips]_vars /\ []TimestampsOrdered

(* ----------------------- properties: exits ------------------------------ *)
\* the invocations that ran the sequence to process.exit
Completed == {i \in CallIds : calls[i].pc = "exited"}

\* the sequence of invocation i ran each of its cleanup steps
CleanedUp(i) ==
  /\ calls[i].leave # "none"
  /\ calls[i].pageClose # "none"
  /\ calls[i].browserClose # "none"

\* C16: on no path after runBot was invoked is the process terminated without
\* the guard having been set and the cleanup steps having run exactly once.
C16_ExitOnlyThroughSequencer ==
  processExit.exited =>
    /\ isShuttingDown
    /\ processExit.by = "sequencer"
    /\ Cardinality(Completed) = 1
    /\ \A i \in Completed : CleanedUp(i)

\* the triggers that come from outside runBot's platform dispatch
OutsideTriggers == {"SIGINT", "SIGTERM", "bridge"}

\* the shutdown was initiated by runBot's own dispatch
DispatchInitiated ==
  \A i \in CallIds : PastGuard(i) => calls[i].trigger \notin OutsideTriggers

\* C17: when the platform has no implemented handler and runBot's dispatch
\* initiates the shutdown, the process exits with code 1; the dispatch
\* produces exit code 0 only for an implemented platform.
C17_UnimplementedPlatformFails ==
  (processExit.by = "sequencer" /\ DispatchInitiated) =>
    /\ platform # "google_meet" => processExit.code = 1
    /\ processExit.code = 0 => platform = "google_meet"

C19_ShutdownTerminates == isShuttingDown ~> processExit.exited

\* C19 witness: all three steps threw and the process exited
C19_Witness ==
  /\ processExit.by = "sequencer"
  /\ \E i \in Completed : /\ calls[i].leave = "threw"
                          /\ calls[i].pageClose = "threw"
                          /\ calls[i].browserClose = "threw"

\* the steps of invocation i so far are in the order leave, page close,
\* browser close, exit
InOrder(i) ==
  /\ calls[i].pageClose # "none" => calls[i].leave # "none"
  /\ calls[i].browserClose # "none" => calls[i].pageClose # "none"
  /\ calls[i].pc \in {"leaving", "grace"} => calls[i].pageClose = "none"
  /\ calls[i].pc = "closing_page" => calls[i].browserClose = "none"
  /\ calls[i].pc = "exited" => CleanedUp(i)

\* invocation i is new in this step, or was not yet at pc
BeginsNow(i, pc) ==
  /\ i \in 1..Len(calls')
  /\ calls'[i].pc = pc
  /\ i \in CallIds => calls[i].pc # pc

\* C20: the steps of the sequence occur in the order leave attempt, page
\* close, browser close, process exit; page.close() is called only on an open
\* page, the browser's close() only on a connected browser, and the process
\* exits only after page close and browser close were each attempted or skipped.
C20_StepsInOrder ==
  /\ [](/\ \A i \in CallIds : InOrder(i)
        /\ processExit.by = "sequencer" => \E i \in Completed : CleanedUp(i))
  /\ [][\A i \in 1..(MaxCalls + 2) :
          /\ BeginsNow(i, "closing_page") => page = "open"
          /\ BeginsNow(i, "closing_browser") => browserInstance = "connected"]_vars

\* C20 witness: a sequence that left the meeting, closed the page, closed the
\* browser and exited
C20_Witness ==
  /\ processExit.by = "sequencer"
  /\ \E i \in Completed : /\ calls[i].leave = "true"
                          /\ calls[i].pageClose = "ok"
                          /\ calls[i].browserClose = "ok"

(* ----------------------- properties: fan-out and fan-in ----------------- *)
\* the pipelines whose stop() callback i has called so far
StopsIssued(i) ==
  CASE polls[i].pc = "stop_audio" -> {"audio"}
    [] polls[i].pc = "stop_video" -> {"audio", "video"}
    [] polls[i].pc = "stop_speaker" -> Pipelines
    [] OTHER -> polls[i].stops

\* the pipelines whose stop() has returned or thrown in callback i
StopsCompleted(i) == polls[i].stops

\* the pipelines whose start() has been called, and those whose start() has
\* completed
StartsIssued == {p \in Pipelines : startState[p] \in {"pending", "ok", "failed"}}
StartsCompleted == {p \in Pipelines : startState[p] \in {"ok", "failed"}}

\* C21: all three start requests are issued before any start has completed,
\* and at teardown all three stop requests are issued before any stop has
\* completed.
C21_StartAndStopConcurrent ==
  /\ StartsCompleted # {} => StartsIssued = Pipelines
  /\ \A i \in PollIds : StopsCompleted(i) # {} => StopsIssued(i) = Pipelines

(* ----------------------- properties: participant helper ----------------- *)
NoDuplicates(list) == \A j, k \in 1..Len(list) : list[j] = list[k] => j = k

\* C22: the list getActiveParticipants() returns has no duplicates, the count
\* helper returns its length on the same page, and that length is the count
\* the watchdog has read at its latest tick.
C22_CountIsListLength ==
  /\ NoDuplicates(participants)
  /\ NoDuplicates(GetActiveParticipants(mainElement, botName))
  /\ GetActiveParticipantsCount(mainElement, botName)
       = Len(GetActiveParticipants(mainElement, botName))
  /\ wd.lastParticipantCount = Len(participants)

\* a tick has read a page on which a name was pushed more than once
C22_Witness ==
  /\ startupTicks + aloneRun > 0 \/ everMulti
  /\ participants = GetActiveParticipants(mainElement, botName)
  /\ Len(participants) = 2
  /\ Len(Pushed(mainElement, botName)) = 3

(* ----------------------- properties: watchdog after firing -------------- *)
\* C23: once the watchdog has raised a reason no step changes the watchdog's
\* variables (aloneTime, speakersIdentified, the last count, the reason) or
\* the raised reason, and the tick timer is and stays cleared.
C23_FiresAtMostOnce ==
  [][vexaRecordingRejected # "none" =>
       /\ wd' = wd
       /\ vexaRecordingRejected' = vexaRecordingRejected
       /\ checkInterval = "cleared" /\ checkInterval' = "cleared"]_vars

\* C23 witness: the page went on after the watchdog fired (the unload handler
\* ran on a page whose watchdog had already raised its reason)
C23_Witness ==
  /\ vexaRecordingRejected # "none"
  /\ wd.reason = vexaRecordingRejected
  /\ vexaRecordingResolved

\* C24: aloneTime is the number of consecutive ticks with count <= 1 up to the
\* latest tick, it is 0 when the latest tick read a count > 1, and while no
\* reason has been raised it is below the threshold of the active regime.
C24_AloneTimeIsRunLength ==
  /\ wd.aloneTime = aloneRun
  /\ wd.lastParticipantCount > 1 => wd.aloneTime = 0
  /\ wd.reason = "none" =>
       wd.aloneTime < (IF wd.speakersIdentified THEN everyoneLeftTimeoutSeconds
                                                ELSE startupAloneTimeoutSeconds)

\* C24 witness: the counter was reset by a tick with company and has counted
\* again since, below the left-alone threshold
C24_Witness ==
  /\ everMulti
  /\ wd.reason = "none"
  /\ wd.aloneTime = 1
  /\ aloneRun = 1
  /\ startupTicks > 0

\* the tick as it would run with the progress branch deleted
TickWithoutLog(w, count, startupT, leftT) ==
  LET w1 == CountChanged(w, count) IN
  IF IsAlone(count)
    THEN LET w2 == [w1 EXCEPT !.aloneTime = @ + 1] IN
         IF ThresholdReached(w2.aloneTime, CurrentTimeout(w2, startupT, leftT))
           THEN [w2 EXCEPT !.reason = TimeoutReason(w2)]
           ELSE w2
    ELSE [w1 EXCEPT !.aloneTime = 0,
                    !.speakersIdentified =
                       IF w1.hasEverHadMultipleParticipants /\ ~w1.speakersIdentified
                         THEN TRUE ELSE @]

\* C25: a tick that writes a progress line leaves the watchdog's variables as
\* the same tick without the progress branch leaves them, and changes neither
\* the tick timer nor the terminal flags; a raised reason is still raised at
\* the tick fixed by the counts alone.
C25_ProgressLogChangesNothing ==
  /\ [][(progress' # progress /\ progress'.logged) =>
          /\ wd' = TickWithoutLog(wd, wd'.lastParticipantCount,
                                  startupAloneTimeoutSeconds, everyoneLeftTimeoutSeconds)
          /\ checkInterval' = checkInterval
          /\ vexaRecordingRejected' = vexaRecordingRejected
          /\ vexaRecordingResolved' = vexaRecordingResolved]_vars
  /\ [](wd.reason # "none" =>
          IF everMulti
            THEN wd.reason = LEFT_ALONE /\ aloneRun = everyoneLeftTimeoutSeconds
            ELSE wd.reason = STARTUP_ALONE /\ startupTicks = startupAloneTimeoutSeconds)

\* C25 witness: the watchdog fired after a tick had written a progress line in
\* the post-speaker regime earlier in the same alone run
C25_Witness ==
  /\ wd.reason = LEFT_ALONE
  /\ aloneRun > LogEvery
  /\ wd.aloneTime > LogEvery

(* ----------------------- properties: platform leave and grace wait ------ *)
\* the platforms performGracefulLeave calls a leave handler for
HasLeaveHandler(plat) == plat = "google_meet"

\* invocation i has finished its platform-leave block
PastLeave(i) == calls[i].pc \notin {"ignored", "entered", "leaving"}

\* C26: with a live page and a platform that has no leave handler the leave
\* counts as handled (successful); the 2 s wait is made exactly when the leave
\* step succeeded, and never after a leave that returned false or threw or was
\* skipped for want of a live page.
C26_GraceIffLeaveSucceeded ==
  \A i \in CallIds : PastLeave(i) =>
    /\ (~HasLeaveHandler(platform) /\ calls[i].leave # "skipped") =>
         calls[i].leave = "handled"
    /\ calls[i].grace = "waited" <=> calls[i].leave \in {"true", "handled"}
    /\ calls[i].leave \in {"false", "threw", "skipped"} => calls[i].grace = "none"

(* ----------------------- properties: speaking judgement ----------------- *)
\* what is on the page for representation e: a visible indicator, or a
\* speaking class on the representation or on a descendant
SpeakingSigns(d, e) ==
  d[e].indicator \/ d[e].containerSpeaking \/ d[e].descendantSpeaking

\* the representations on page d that resolve to id
Bearers(d, id) == {e \in Elems : d[e].present /\ d[e].id = id}

\* C27: whenever the detector records a new judgement for a participant whose
\* id belongs to one representation on the page, the judgement is 'speaking'
\* exactly when that representation shows a visible indicator or carries a
\* speaking class on itself or on a descendant.
C27_JudgedBySigns ==
  [][\A id \in Ids :
       (speakingStates'[id] # speakingStates[id] /\ Cardinality(Bearers(dom', id)) = 1) =>
         \A e \in Bearers(dom', id) :
           (speakingStates'[id] = "speaking") <=> SpeakingSigns(dom', e)]_vars

(* ----------------------- properties: participant id --------------------- *)
\* C28: each resolution returns the explicit attribute when it has one, else
\* the nested child's attribute when it has one, else the generated id; and
\* once a resolution has returned a generated id, every later resolution for
\* the representation returns that same id.
C28_IdStable ==
  /\ [][resolvedIds' # resolvedIds =>
          LET id == resolvedIds'[Len(resolvedIds')]
          IN /\ ~Falsy(tile.attr) => id = tile.attr
             /\ (Falsy(tile.attr) /\ ~Falsy(tile.child)) => id = tile.child
             /\ (Falsy(tile.attr) /\ Falsy(tile.child)) =>
                  id \in GeneratedIds /\ id = tile'.generated]_vars
  /\ [](\A j, k \in 1..Len(resolvedIds) :
          (j < k /\ resolvedIds[j] \in GeneratedIds) => resolvedIds[k] = resolvedIds[j])

(* ----------------------- properties: output directory ------------------- *)
\* setup has gone past the directory block without throwing
DirectoryAccepted == cpc \notin {"setup"} /\ verified = "passed"

\* the position of the directory in use among the candidates
ChosenIndex == CHOOSE i \in 1..Len(Candidates) : Candidates[i] = recordingsDir

\* candidate i has passed its probe: its isWritable() call, and for the last
\* resort the create-and-write verification
ProbePassed(i) ==
  IF i \in Probed THEN isWritableCalls[i] = "passed" ELSE verified = "passed"

\* C29: once setup has gone on past the directory block, the directory in use
\* has passed its probe and every candidate before it was probed and failed;
\* and setup does not go on with a directory whose verification failed.
C29_FirstProbedCandidate ==
  /\ DirectoryAccepted =>
       /\ ProbePassed(ChosenIndex)
       /\ \A j \in 1..(ChosenIndex - 1) : isWritableCalls[j] = "failed"
  /\ cpc \notin {"setup", "failed"} => verified = "passed" /\ ProbePassed(ChosenIndex)

\* C29 witness: the three probed candidates failed, the last resort passed the
\* verification and the pipelines are being initialized under it
C29_Witness ==
  /\ recordingsDir = "/tmp"
  /\ verified = "passed"
  /\ startState["audio"] = "initialized"

(* ----------------------- properties: late arrivals ---------------------- *)
\* detection is running and the log has room
Detecting == pageAlive /\ pollingInterval = "active" /\ Len(speakerEvents) < MaxEvents

\* representation e came after start() (it carries no observer marker), is
\* the only one with its id, shows speaking signs and is not yet registered
\* as speaking by the poll
LateSpeaking(e) ==
  /\ Detecting
  /\ dom[e].present /\ ~dom[e].observerAttached
  /\ Bearers(dom, dom[e].id) = {e}
  /\ SpeakingSigns(dom, e)
  /\ lastSpeakingById[dom[e].id] # "true"

\* a SPEAKER_START for e's id is in the log and the poll has registered it
StartLogged(e) ==
  /\ lastSpeakingById[dom[e].id] = "true"
  /\ \E k \in 1..Len(speakerEvents) :
       speakerEvents[k].eventType = "SPEAKER_START" /\ speakerEvents[k].participantId = dom[e].id

\* a class mutation on the container of e changes what e shows, against the
\* judgement on record for its id
ContainerMutationAgainstRecord(e) ==
  /\ pollingInterval = "active"
  /\ dom[e].present /\ dom'[e].present
  /\ dom'[e] = [dom[e] EXCEPT !.containerSpeaking = ~@]
  /\ Bearers(dom, dom[e].id) = {e}
  /\ (speakingStates[dom[e].id] = "speaking") # SpeakingSigns(dom', e)

\* C30: a representation that appears after start() and is speaking gets its
\* SPEAKER_START logged by a later poll (unless it stops speaking, leaves, or
\* detection ends first); and a later speaking/silent change made by a class
\* mutation on a representation on the page produces an event at the change,
\* as it does for a representation present at start.
C30_LateArrivalsDetected ==
  /\ \A e \in Elems :
       LateSpeaking(e) ~>
         (StartLogged(e) \/ ~Detecting \/ ~dom[e].present \/ ~SpeakingSigns(dom, e)
            \/ Bearers(dom, dom[e].id) # {e})
  /\ [][\A e \in Elems :
          ContainerMutationAgainstRecord(e) => speakerEvents' # speakerEvents]_vars

(* ----------------------- properties: append-only log -------------------- *)
\* log a is an initial segment of log b
IsPrefix(a, b) == Len(a) <= Len(b) /\ SubSeq(b, 1, Len(a)) = a

\* C31: every step leaves the entries already in the event log in place and
\* unchanged (new entries are added at the end only), and every entry's
\* session-relative timestamp is an integer >= 0.
C31_LogAppendOnly ==
  /\ [][IsPrefix(speakerEvents, speakerEvents')]_vars
  /\ [](\A k \in 1..Len(speakerEvents) :
          speakerEvents[k].timestamp \in Int /\ speakerEvents[k].timestamp >= 0)

(* ----------------------- properties: state map and log ------------------ *)
\* the last event logged for id is a SPEAKER_START
LastIsStart(id) ==
  LET evs == EventsOf(id)
  IN evs # <<>> /\ evs[Len(evs)].eventType = "SPEAKER_START"

\* C32: for every participant id the speaking-state map holds 'speaking'
\* exactly when the last event logged for that id is a SPEAKER_START; no step
\* sets an entry to 'silent' without a SPEAKER_END in the log.
C32_MapAgreesWithLog ==
  \A id \in Ids : (speakingStates[id] = "speaking") <=> LastIsStart(id)

(* ----------------------- properties: one teardown ----------------------- *)
TeardownPcs == {"stop_audio", "stop_video", "stop_speaker",
                "save_audio", "save_video", "save_events", "settle", "done"}

\* the poll callbacks that have entered the teardown branch
InTeardown == {i \in PollIds : polls[i].pc \in TeardownPcs}

\* C33: at most one run of the status-poll callback enters the teardown (the
\* stops, the saves and the settling of the promise), whatever callbacks were
\* in flight when the terminal flag was read.
C33_TeardownOnce == Cardinality(InTeardown) <= 1

(* ----------------------- C34 -------------------------------------------- *)
\* an invocation of the sequencer has closed the page or the browser
SequencerClosed ==
  \E k \in 1..Len(calls) : calls[k].pageClose = "ok" \/ calls[k].browserClose = "ok"

\* a status-poll callback has been through its stops and its saves
TeardownFinished == \E i \in PollIds : polls[i].pc \in {"settle", "done"}

\* C34: whatever trigger arrives while recording is active, the sequencer has
\* not closed the page or the browser unless the coordinator has already
\* stopped the pipelines and been through the persistence of the artifacts
C34_TeardownBeforeClose == SequencerClosed => TeardownFinished

(* ----------------------- C35 -------------------------------------------- *)
\* C35: the persistence of the three artifacts is independent: a callback that
\* is through its teardown and has called the save of the audio file or of the
\* video file, whatever that call's outcome, has also called the save of the
\* speaker-event log; and once it has settled, the promise is no longer pending
\* and carries the outcome of a terminal flag.
C35_SavesIndependent ==
  \A i \in PollIds :
    /\ (polls[i].pc \in {"settle", "done"} /\ polls[i].saves \cap {"audio", "video"} # {})
         => "events" \in polls[i].saves
    /\ polls[i].pc = "done" => promise.state \in {"resolved", "rejected"}

(* ----------------------- C36 -------------------------------------------- *)
\* a status-poll callback is inside an awaited stop or an awaited save
InStopOrSave == {i \in PollIds : polls[i].pc \in TeardownPcs \ {"settle", "done"}}

\* the promise has been settled by the status poll
SettledByPoll == cpc = "monitoring" /\ promise.state # "pending"

\* C36: the promise settles once, its state never changing afterwards, and it
\* is settled by the status poll only when the teardown for the terminal flag
\* is over: while the promise is settled, no stop and no persistence call of a
\* teardown is in progress.
C36_SettledAfterTeardown ==
  /\ [][promise.state # "pending" => promise' = promise]_vars
  /\ [](SettledByPoll => InStopOrSave = {})

(* ----------------------- C37 -------------------------------------------- *)
\* C37: one terminal outcome per session: once the deliberate-end flag is set
\* with no timeout raised, no step raises a timeout; and once the watchdog has
\* raised a timeout the promise is never resolved, whatever page event follows.
C37_OneOutcome ==
  /\ [][(vexaRecordingResolved /\ vexaRecordingRejected = "none")
          => vexaRecordingRejected' = "none"]_vars
  /\ [](vexaRecordingRejected # "none" => promise.state # "resolved")

\* C37 witness: the watchdog fired, a page event then set the deliberate-end
\* flag as well, and the poll reported the rejection.
C37_Witness ==
  /\ vexaRecordingRejected # "none"
  /\ vexaRecordingResolved
  /\ promise.state = "rejected"

(* ----------------------- C38 -------------------------------------------- *)
\* the step is a stop() awaited by a status-poll callback
CoordinatorStop == \E i \in PollIds : polls'[i].stops # polls[i].stops

\* C38: the coordinator's stop of a pipeline, which on the watchdog and
\* page-event paths follows the stop made in the page, loses no captured data:
\* the stored audio and video blobs afterwards contain every chunk they
\* contained before, and the speaker-event log is the same.
C38_SecondStopKeepsData ==
  [][CoordinatorStop =>
       /\ audio.blob \subseteq audio'.blob
       /\ video.blob \subseteq video'.blob
       /\ speakerEvents' = speakerEvents]_vars

\* C38 witness: the page-side stop stored a blob, the recorder's last data
\* arrived, and the coordinator's stop stored a blob that includes it.
C38_Witness ==
  /\ checkInterval = "cleared"
  /\ \E i \in PollIds : {"audio", "video"} \subseteq polls[i].stops
  /\ {"timeslice", "final"} \subseteq audio.blob
  /\ video.blob # {}

(* ----------------------- C39 -------------------------------------------- *)
\* the participants whose last logged event is a SPEAKER_START
OpenIntervals == {id \in Ids : LastIsStart(id)}

\* C39: in the log as the teardown finds it once the detector has been
\* stopped, every SPEAKER_START is followed by a SPEAKER_END for the same
\* participant id: no speaking interval is left open.
C39_IntervalsClosed == DetectorStopped => OpenIntervals = {}

=============================================================================
